---------------------------- MODULE Spec2Model ----------------------------
(***************************************************************************)
(* Model of the service node's RPC endpoint health monitor                 *)
(* (vision/servicenode/blockchains/middlewares.py, NodeHealthMiddleware)   *)
(* together with the durable per-chain health record it flushes into.      *)
(*                                                                         *)
(* Strings are modelled as sequences of tokens, so that parsing a URL,     *)
(* formatting the obfuscated URL and serializing a list as JSON are        *)
(* computed the way the code computes them.                                *)
(***************************************************************************)
EXTENDS Integers, Sequences, FiniteSets, TLC

(***************************************************************************)
(* Bounds and input alphabets                                              *)
(***************************************************************************)
MaxPathSegments == 2

Schemes == {"https"}
Hosts == {"p.example", "q.example"}
Segments == {"v1", "secretkey"}

RECURSIVE PathsOfLen(_)
PathsOfLen(n) ==
    IF n = 0 THEN {<<>>}
    ELSE {p \o <<"/", s>> : p \in PathsOfLen(n - 1), s \in Segments}

Paths == UNION {PathsOfLen(n) : n \in 0..MaxPathSegments}

Url(scheme, netloc, path) == <<scheme, "://", netloc>> \o path

EndpointURIs == {Url(s, h, p) : s \in Schemes, h \in Hosts, p \in Paths}

Responses == {"result"}
Exceptions == {"ConnectionError"}
BaseExceptions == {"KeyboardInterrupt"}

Outcomes ==
    [kind : {"return"}, value : Responses]
        \cup [kind : {"raise"}, value : Exceptions \cup BaseExceptions]

NoOutcome == [kind |-> "none", value |-> "none"]

Range(s) == {s[i] : i \in 1..Len(s)}

(***************************************************************************)
(* Configuration: the RPC nodes of the active blockchains, in the          *)
(* iteration order of the dictionary.                                      *)
(***************************************************************************)
SecretUri == Url("https", "p.example", <<"/", "v1", "/", "secretkey">>)
PlainUri == Url("https", "q.example", <<>>)
VersionedUri == Url("https", "q.example", <<"/", "v1">>)

get_blockchains_rpc_nodes ==
    << [blockchain |-> "AVALANCHE", nodes |-> <<SecretUri, PlainUri>>],
       [blockchain |-> "BNB_CHAIN", nodes |-> <<PlainUri, VersionedUri>>] >>

Blockchains == {"AVALANCHE", "BNB_CHAIN", "CELO", "CRONOS", "POLYGON"}

(***************************************************************************)
(* urllib.parse.urlparse, hashlib.sha256 and json                          *)
(***************************************************************************)
urlparse(url) ==
    [scheme |-> url[1], netloc |-> url[3], path |-> SubSeq(url, 4, Len(url))]

TokenCode(t) ==
    CASE t = "/" -> 1
      [] t = "v1" -> 2
      [] t = "secretkey" -> 3
      [] OTHER -> 4

RECURSIVE Sha256Code(_)
Sha256Code(data) ==
    IF data = <<>> THEN 0
    ELSE TokenCode(Head(data)) + 5 * Sha256Code(Tail(data))

\* sha256(data).hexdigest(): a digest string, distinct for distinct data
\* (collision freedom of SHA-256 is assumed).
hexdigest(data) == ToString(Sha256Code(data))

obfuscate_endpoint_path(url) ==
    LET parsed_url == urlparse(url)
    IN  IF Len(parsed_url.path) > 0
        THEN <<parsed_url.scheme, "://", parsed_url.netloc,
               hexdigest(parsed_url.path)>>
        ELSE <<parsed_url.scheme, "://", parsed_url.netloc>>

RECURSIVE json_dumps_items(_)
json_dumps_items(list) ==
    IF list = <<>> THEN <<>>
    ELSE (<<"\"">> \o Head(list) \o <<"\"">>)
         \o (IF Tail(list) = <<>> THEN <<>> ELSE <<", ">>)
         \o json_dumps_items(Tail(list))

json_dumps(list) == <<"[">> \o json_dumps_items(list) \o <<"]">>


RECURSIVE json_loads_string(_)
\* the tokens of a JSON string up to its closing quote
json_loads_string(text) ==
    IF text = <<>> \/ Head(text) = "\"" THEN <<>>
    ELSE <<Head(text)>> \o json_loads_string(Tail(text))

RECURSIVE json_loads_items(_)
json_loads_items(text) ==
    IF text = <<>> \/ Head(text) = "]" THEN <<>>
    ELSE IF Head(text) = ", " THEN json_loads_items(Tail(text))
    ELSE \* Head(text) is the opening quote of a string
        LET str == json_loads_string(Tail(text))
        IN  <<str>> \o json_loads_items(SubSeq(text, Len(str) + 3, Len(text)))

json_loads(text) == json_loads_items(Tail(text))

(***************************************************************************)
(* State                                                                   *)
(***************************************************************************)
VARIABLES
    health_data,    \* NodeHealthMiddleware._health_data, in insertion order:
                    \* a sequence of [endpoint, blockchain, is_healthy]
    db,             \* the durable health store: blockchain -> zero or one
                    \* NodesHealth record
    logged,         \* the messages logged by the last operation
    last,           \* the last operation with its inputs and its outcome
    registered,     \* <<uri, key>>: the key add_blockchain_endpoint used for uri
    flushes_in_row, \* flushes since the last other operation (at most 2)
    history,        \* what happened since the last flush: [flushed,
                    \* healthy_at_flush, failed, changed]
    flush_pc,       \* where a flush that runs beside other threads stands
    iterator,       \* its dictionary iterator: [used, pos]
    node_health_data, \* its local node_health_data, in insertion order
    counted,        \* the [endpoint, is_healthy] it has counted
    held,           \* <<key, is_healthy>> held by the map since it started
    adding          \* per thread, the entry a registration is about to
                    \* store: zero or one [endpoint_uri, blockchain]

program_vars == <<health_data, db, logged>>
observer_vars == <<last, registered, flushes_in_row, history>>
flush_vars == <<flush_pc, iterator, node_health_data, counted, held, adding>>

(***************************************************************************)
(* State of a blockchain client (blockchains/base.py) and of what it       *)
(* works with: the blockchain utilities that broadcast and resubmit, the   *)
(* account on the blockchain and the queue of delayed jobs.  An optional   *)
(* value (None or a value) is a sequence of no or one element.             *)
(***************************************************************************)
VARIABLES
    config,         \* get_blockchain_config(blockchain) of the client
    submissions,    \* the utilities' submissions; the internal transaction
                    \* ID of a submission is its index
    account_nonce,  \* the nonce the blockchain expects next of the account
    jobs,           \* the delayed dependent-submission jobs, as enqueued
    next_nonce,     \* the nonce the client's caller assigns next
    handed,         \* the nonces of the requests the client has built, in
                    \* the order it built them
    client_last     \* the client operation of the last step, if it was
                    \* one: what it handed on, what it looked up and what
                    \* its caller got

client_vars ==
    <<config, submissions, account_nonce, jobs, next_nonce, handed,
      client_last>>

health_vars == <<program_vars, observer_vars, flush_vars>>

vars == <<health_vars, client_vars>>

MaxSubmissions == 2
MaxNonce == 3
MaxFee == 2

None == <<>>

ContractAbis == {"VISION_HUB", "VISION_TOKEN", "VISION_FORWARDER"}

\* the configurations: no cap, a cap of 0, and a cap of 1 with a minimum
\* fee below and above it
Configs ==
    {c \in [hub : {"hub_address"},
            vsn_token : {"token_address"},
            min_adaptable_fee_per_gas : {1, 2},
            max_total_fee_per_gas : {None, <<0>>, <<1>>},
            adaptable_fee_increase_factor : {2},
            blocks_until_resubmission : {1},
            average_block_time : {2}] :
         c.min_adaptable_fee_per_gas = 2 => c.max_total_fee_per_gas = <<1>>}

NoClientOperation ==
    [name |-> "init", args |-> <<>>, handed |-> <<>>, lookups |-> <<>>,
     outcome |-> [kind |-> "none", type |-> "none", value |-> <<>>]]

ClientIdle ==
    /\ submissions = <<>>
    /\ account_nonce = 0
    /\ jobs = <<>>
    /\ next_nonce = 0
    /\ handed = <<>>
    /\ client_last = NoClientOperation

NoOperation ==
    [name |-> "init", endpoint_uri |-> <<>>, obfuscated_endpoint |-> <<>>,
     made |-> NoOutcome, got |-> NoOutcome]

Keys(hd) == {hd[i].endpoint : i \in 1..Len(hd)}

IndexOf(hd, key) == CHOOSE i \in 1..Len(hd) : hd[i].endpoint = key

\* the threads that register endpoints
AddThreads == {1, 2}

\* no endpoint is registered and nothing has been flushed
HealthIdle ==
    /\ health_data = <<>>
    /\ db = [b \in Blockchains |-> <<>>]
    /\ logged = <<>>
    /\ last = NoOperation
    /\ registered = {}
    /\ flushes_in_row = 0
    /\ history = [flushed |-> FALSE, healthy_at_flush |-> {},
                  failed |-> {}, changed |-> {}]
    /\ flush_pc = "idle"
    /\ iterator = [used |-> 0, pos |-> 0]
    /\ node_health_data = <<>>
    /\ counted = <<>>
    /\ held = {}
    /\ adding = [t \in AddThreads |-> <<>>]

Init ==
    /\ HealthIdle
    /\ config = CHOOSE c \in Configs : c.max_total_fee_per_gas = None
                                      /\ c.min_adaptable_fee_per_gas = 1
    /\ ClientIdle

(***************************************************************************)
(* add_blockchain_endpoint                                                 *)
(***************************************************************************)
FirstMatch_last(endpoint_uri) ==
    LET rpc_nodes == get_blockchains_rpc_nodes
        hits == {i \in 1..Len(rpc_nodes) :
                    endpoint_uri \in Range(rpc_nodes[i].nodes)}
    IN  IF hits = {} THEN <<>>
        ELSE <<rpc_nodes[CHOOSE i \in hits : \A j \in hits : i >= j].blockchain>>

\* the first blockchain of the configuration whose node list holds the URI
\* (the loop breaks at the first match), as a sequence of zero or one names
FirstMatch(endpoint_uri) ==
    LET rpc_nodes == get_blockchains_rpc_nodes
        hits == {i \in 1..Len(rpc_nodes) :
                    endpoint_uri \in Range(rpc_nodes[i].nodes)}
    IN  IF hits = {} THEN <<>>
        ELSE <<rpc_nodes[CHOOSE i \in hits : \A j \in hits : i <= j].blockchain>>

\* the key under which add_blockchain_endpoint stores the entry
health_data_key(endpoint_uri) == endpoint_uri

add_blockchain_endpoint(endpoint_uri) ==
    LET match == FirstMatch(endpoint_uri)
        key == health_data_key(endpoint_uri)
    IN  /\ IF match /= <<>>
           THEN /\ health_data' =
                      IF key \notin Keys(health_data)
                      THEN Append(health_data,
                                  [endpoint |-> key,
                                   blockchain |-> match[1],
                                   is_healthy |-> TRUE])
                      ELSE health_data
                /\ registered' = registered \cup {<<endpoint_uri, key>>}
                /\ history' =
                      IF key \notin Keys(health_data)
                      THEN [history EXCEPT !.changed = @ \cup {key}]
                      ELSE history
           ELSE UNCHANGED <<health_data, registered, history>>
        /\ logged' = <<>>
        /\ last' = [NoOperation EXCEPT !.name = "add",
                                       !.endpoint_uri = endpoint_uri]
        /\ flushes_in_row' = 0
        /\ UNCHANGED db

(***************************************************************************)
(* flush_health_data                                                       *)
(***************************************************************************)
\* a counting slip: every entry is counted as healthy as well
count_entry_miscounting(nhd, endpoint, data) ==
    LET blockchain == data.blockchain
        known == \E i \in 1..Len(nhd) : nhd[i].blockchain = blockchain
        with == IF known THEN nhd
                ELSE Append(nhd, [blockchain |-> blockchain,
                                  unhealthy_total |-> 0,
                                  unhealthy_endpoints |-> <<>>,
                                  healthy_total |-> 0])
        i == CHOOSE j \in 1..Len(with) : with[j].blockchain = blockchain
    IN  IF data.is_healthy
        THEN [with EXCEPT ![i].healthy_total = @ + 1]
        ELSE [with EXCEPT ![i].healthy_total = @ + 1,
                          ![i].unhealthy_total = @ + 1,
                          ![i].unhealthy_endpoints = Append(@, endpoint)]

Position(nhd, blockchain) ==
    CHOOSE i \in 1..Len(nhd) : nhd[i].blockchain = blockchain

\* one iteration of the first loop: account for one entry of the map in the
\* per-blockchain dictionary nhd (a sequence, in insertion order)
count_entry(nhd, endpoint, data) ==
    LET blockchain == data.blockchain
        known == \E i \in 1..Len(nhd) : nhd[i].blockchain = blockchain
        with == IF known THEN nhd
                ELSE Append(nhd, [blockchain |-> blockchain,
                                  unhealthy_total |-> 0,
                                  unhealthy_endpoints |-> <<>>,
                                  healthy_total |-> 0])
        i == Position(with, blockchain)
    IN  IF data.is_healthy
        THEN [with EXCEPT ![i].healthy_total = @ + 1]
        ELSE [with EXCEPT ![i].unhealthy_total = @ + 1,
                          ![i].unhealthy_endpoints = Append(@, endpoint)]

RECURSIVE aggregate(_, _)
\* the first loop, over the entries hd, starting from nhd
aggregate(hd, nhd) ==
    IF hd = <<>> THEN nhd
    ELSE aggregate(Tail(hd), count_entry(nhd, Head(hd).endpoint, Head(hd)))

update_node_health_data_inserting(store, blockchain, unhealthy_total, unhealthy_endpoints, healthy_total) ==
    [store EXCEPT ![blockchain] =
        @ \o <<[unhealthy_total |-> unhealthy_total,
                unhealthy_endpoints |-> unhealthy_endpoints,
                healthy_total |-> healthy_total]>>]

\* database.access.update_node_health_data: upsert of the blockchain's record
update_node_health_data(store, blockchain, unhealthy_total, unhealthy_endpoints, healthy_total) ==
    [store EXCEPT ![blockchain] =
        <<[unhealthy_total |-> unhealthy_total,
           unhealthy_endpoints |-> unhealthy_endpoints,
           healthy_total |-> healthy_total]>>]

RECURSIVE persist_accumulating(_, _)
\* totals added to the stored ones instead of replacing them
persist_accumulating(store, nhd) ==
    IF nhd = <<>> THEN store
    ELSE LET blockchain == Head(nhd).blockchain
             old == IF store[blockchain] = <<>>
                    THEN [unhealthy_total |-> 0, healthy_total |-> 0]
                    ELSE [unhealthy_total |-> store[blockchain][1].unhealthy_total,
                          healthy_total |-> store[blockchain][1].healthy_total]
         IN  persist_accumulating(
                 update_node_health_data(
                     store, blockchain,
                     old.unhealthy_total + Head(nhd).unhealthy_total,
                     json_dumps(Head(nhd).unhealthy_endpoints),
                     old.healthy_total + Head(nhd).healthy_total),
                 Tail(nhd))

RECURSIVE persist(_, _)
\* the second loop: one update per aggregated blockchain
persist(store, nhd) ==
    IF nhd = <<>> THEN store
    ELSE persist(update_node_health_data(
                     store, Head(nhd).blockchain, Head(nhd).unhealthy_total,
                     json_dumps(Head(nhd).unhealthy_endpoints),
                     Head(nhd).healthy_total),
                 Tail(nhd))

FlushBookkeeping ==
    /\ logged' = <<>>
    /\ last' = [NoOperation EXCEPT !.name = "flush"]
    /\ flushes_in_row' = IF flushes_in_row < 2 THEN flushes_in_row + 1 ELSE 2
    /\ history' =
          [flushed |-> TRUE,
           healthy_at_flush |->
               {health_data[i].endpoint : i \in
                   {j \in 1..Len(health_data) : health_data[j].is_healthy}},
           failed |-> {}, changed |-> {}]
    /\ UNCHANGED registered

\* a flush that empties the map once it is persisted
flush_health_data_clearing ==
    /\ db' = persist(db, aggregate(health_data, <<>>))
    /\ health_data' = <<>>
    /\ FlushBookkeeping

\* a flush that marks every entry healthy again once it is persisted
flush_health_data_resetting ==
    /\ db' = persist(db, aggregate(health_data, <<>>))
    /\ health_data' =
          [i \in 1..Len(health_data) |->
              [health_data[i] EXCEPT !.is_healthy = TRUE]]
    /\ FlushBookkeeping

flush_health_data ==
    /\ db' = persist(db, aggregate(health_data, <<>>))
    /\ UNCHANGED health_data
    /\ FlushBookkeeping

(***************************************************************************)
(* wrap_make_request: the middleware around one RPC call.  made is what    *)
(* make_request(method, params) does: it returns a response or raises.     *)
(***************************************************************************)
\* the caller of the middleware sees got; the handler ran if caught
CallBookkeeping(endpoint_uri, made, got) ==
    LET caught == made.kind = "raise" /\ made.value \in Exceptions
    IN  /\ last' = [name |-> "call", endpoint_uri |-> endpoint_uri,
                    obfuscated_endpoint |->
                        IF caught THEN obfuscate_endpoint_path(endpoint_uri)
                        ELSE <<>>,
                    made |-> made, got |-> got]
        /\ history' =
              [history EXCEPT
                  !.failed =
                      IF caught /\ endpoint_uri \in {r[1] : r \in registered}
                      THEN @ \cup {endpoint_uri} ELSE @,
                  !.changed =
                      @ \cup {health_data[i].endpoint : i \in
                                 {j \in 1..Len(health_data) :
                                     health_data[j] /= health_data'[j]}}]
        /\ flushes_in_row' = 0
        /\ UNCHANGED <<db, registered>>

MarkUnhealthy_clearing(endpoint_uri, made) ==
    LET obfuscated_endpoint == obfuscate_endpoint_path(endpoint_uri)
    IN  IF obfuscated_endpoint \in Keys(health_data)
        THEN health_data' =
                 [health_data EXCEPT
                     ![IndexOf(health_data, obfuscated_endpoint)]
                         .is_healthy = (made.kind = "return")]
        ELSE UNCHANGED health_data

MarkUnhealthy_whole_blockchain(endpoint_uri, made) ==
    LET obfuscated_endpoint == obfuscate_endpoint_path(endpoint_uri)
        caught == made.kind = "raise" /\ made.value \in Exceptions
    IN  IF caught /\ obfuscated_endpoint \in Keys(health_data)
        THEN health_data' =
                 [i \in 1..Len(health_data) |->
                      IF health_data[i].blockchain =
                             health_data[IndexOf(health_data,
                                                 obfuscated_endpoint)]
                                 .blockchain
                      THEN [health_data[i] EXCEPT !.is_healthy = FALSE]
                      ELSE health_data[i]]
        ELSE UNCHANGED health_data

MarkUnhealthy(endpoint_uri, made) ==
    LET obfuscated_endpoint == obfuscate_endpoint_path(endpoint_uri)
        caught == made.kind = "raise" /\ made.value \in Exceptions
    IN  IF caught /\ obfuscated_endpoint \in Keys(health_data)
        THEN health_data' =
                 [health_data EXCEPT
                     ![IndexOf(health_data, obfuscated_endpoint)]
                         .is_healthy = FALSE]
        ELSE UNCHANGED health_data

\* a handler that ends without re-raising: the caller gets None
middleware_swallowing(endpoint_uri, made) ==
    LET caught == made.kind = "raise" /\ made.value \in Exceptions
    IN  /\ logged' = IF made.kind = "return" THEN <<endpoint_uri>> ELSE <<>>
        /\ MarkUnhealthy(endpoint_uri, made)
        /\ CallBookkeeping(endpoint_uri, made,
                           IF caught THEN [kind |-> "return", value |-> "None"]
                           ELSE made)

middleware(endpoint_uri, made) ==
    /\ logged' = IF made.kind = "return" THEN <<endpoint_uri>> ELSE <<>>
    /\ MarkUnhealthy(endpoint_uri, made)
    /\ CallBookkeeping(endpoint_uri, made, made)

(***************************************************************************)
(* Specification: the operations, one at a time                            *)
(***************************************************************************)
Next ==
    \/ \E endpoint_uri \in EndpointURIs :
           add_blockchain_endpoint(endpoint_uri)
               /\ UNCHANGED <<flush_vars, client_vars>>
    \/ \E endpoint_uri \in EndpointURIs, made \in Outcomes :
           middleware(endpoint_uri, made)
               /\ UNCHANGED <<flush_vars, client_vars>>
    \/ flush_health_data /\ UNCHANGED <<flush_vars, client_vars>>

Spec == Init /\ [][Next]_vars

(***************************************************************************)
(* Specification: a flush in one thread, step by step, beside              *)
(* registrations and failing calls in other threads.  The interpreter      *)
(* may switch threads between any two iterations of the flush's loop; a    *)
(* single dictionary operation is atomic.                                  *)
(***************************************************************************)
ConfiguredURIs ==
    UNION {Range(get_blockchains_rpc_nodes[i].nodes) :
              i \in 1..Len(get_blockchains_rpc_nodes)}

Pairs(hd) == {<<hd[i].endpoint, hd[i].is_healthy>> : i \in 1..Len(hd)}

\* node_health_data = {}, iter(self._health_data.items()) and the first
\* next(iterator), which no other thread can precede
flush_start ==
    /\ flush_pc \in {"idle", "error"}
    /\ IF Len(health_data) = 0
       THEN /\ flush_pc' = "persist"
            /\ iterator' = [used |-> 0, pos |-> 0]
       ELSE /\ flush_pc' = "count"
            /\ iterator' = [used |-> Len(health_data), pos |-> 1]
    /\ node_health_data' = <<>>
    /\ counted' = <<>>
    /\ held' = Pairs(health_data)
    /\ UNCHANGED <<program_vars, observer_vars, adding, client_vars>>

\* a later next(iterator): RuntimeError if the dictionary changed size during the
\* iteration, the end of the loop, or the next (endpoint, data)
flush_next ==
    /\ flush_pc = "iterate"
    /\ IF Len(health_data) /= iterator.used
       THEN flush_pc' = "error" /\ UNCHANGED iterator
       ELSE IF iterator.pos >= Len(health_data)
       THEN flush_pc' = "persist" /\ UNCHANGED iterator
       ELSE flush_pc' = "count"
            /\ iterator' = [iterator EXCEPT !.pos = @ + 1]
    /\ UNCHANGED <<program_vars, observer_vars, node_health_data, counted,
                   held, adding, client_vars>>

\* the body of the first loop, on the entry the iterator gave
flush_count ==
    LET data == health_data[iterator.pos]
    IN  /\ flush_pc = "count"
        /\ node_health_data' =
              count_entry(node_health_data, data.endpoint, data)
        /\ counted' = Append(counted, [endpoint |-> data.endpoint,
                                       is_healthy |-> data.is_healthy])
        /\ flush_pc' = "iterate"
        /\ UNCHANGED <<program_vars, observer_vars, iterator, held, adding,
                       client_vars>>

\* the second loop
flush_persist ==
    /\ flush_pc = "persist"
    /\ db' = persist(db, node_health_data)
    /\ flush_pc' = "idle"
    /\ UNCHANGED health_data
    /\ FlushBookkeeping
    /\ UNCHANGED <<iterator, node_health_data, counted, held, adding,
                   client_vars>>

NextConcurrent ==
    \/ flush_start
    \/ flush_next
    \/ flush_count
    \/ flush_persist
    \/ \E endpoint_uri \in ConfiguredURIs :
           /\ add_blockchain_endpoint(endpoint_uri)
           /\ held' = held \cup Pairs(health_data')
           /\ UNCHANGED <<flush_pc, iterator, node_health_data, counted,
                          adding, client_vars>>
    \/ \E endpoint_uri \in ConfiguredURIs,
          made \in [kind : {"raise"}, value : Exceptions] :
           /\ middleware(endpoint_uri, made)
           /\ held' = held \cup Pairs(health_data')
           /\ UNCHANGED <<flush_pc, iterator, node_health_data, counted,
                          adding, client_vars>>

SpecConcurrent == Init /\ [][NextConcurrent]_vars

(***************************************************************************)
(* Properties of the health monitor                                        *)
(***************************************************************************)
Entry(key) == health_data[IndexOf(health_data, key)]

FailedCall ==
    /\ last.name = "call"
    /\ last.made.kind = "raise"
    /\ last.made.value \in Exceptions

\* C1: after a wrapped call for a registered endpoint URI has raised an
\* exception, that endpoint's entry in the health map has is_healthy = FALSE,
\* also for a URI with a non-empty path.
C1_FailedCallMarksEntryUnhealthy ==
    \A r \in registered :
        (FailedCall /\ last.endpoint_uri = r[1])
            => (r[2] \in Keys(health_data) /\ ~Entry(r[2]).is_healthy)

\* C2: if a wrapped call fails against a registered endpoint that the
\* previous flush reported healthy, and no other endpoint of that blockchain
\* changed, the next flush persists for the blockchain a record whose
\* unhealthy_endpoints holds the endpoint and whose unhealthy_total is one
\* more than in the previous flush.
C2_NextFlushReportsFailure ==
    [][\A r \in registered :
          LET blockchain == Entry(r[2]).blockchain
              others == {k \in history.changed :
                            k /= r[2] /\ Entry(k).blockchain = blockchain}
          IN  (/\ last'.name = "flush"
               /\ history.flushed
               /\ r[2] \in history.healthy_at_flush
               /\ r[1] \in history.failed
               /\ others = {})
                  => /\ db'[blockchain] /= <<>>
                     /\ db'[blockchain][1].unhealthy_total =
                            db[blockchain][1].unhealthy_total + 1
                     /\ r[2] \in Range(json_loads(
                            db'[blockchain][1].unhealthy_endpoints))
      ]_vars

\* C3: the middleware is transparent: the caller of a wrapped call gets the
\* response the call returned, or the very exception it raised, whether or
\* not the endpoint has an entry in the health map.
C3_MiddlewareIsTransparent ==
    last.name = "call" => last.got = last.made

\* a failed call on an endpoint with an entry: the entry was marked and the
\* exception still reached the caller
C3_Witness ==
    /\ FailedCall
    /\ last.got.kind = "raise"
    /\ last.obfuscated_endpoint \in Keys(health_data)
    /\ ~Entry(last.obfuscated_endpoint).is_healthy

Secret == "secretkey"

\* C4: the raw path of an endpoint whose path carries a secret never appears
\* in a key of the health map, in a persisted unhealthy_endpoints value or in
\* a logged message.
C4_SecretNeverExposed ==
    /\ \A key \in Keys(health_data) : Secret \notin Range(key)
    /\ \A b \in Blockchains :
           db[b] /= <<>> => Secret \notin Range(db[b][1].unhealthy_endpoints)
    /\ \A i \in 1..Len(logged) : Secret \notin Range(logged[i])

\* C5: the key under which add_blockchain_endpoint stores an endpoint URI is
\* the obfuscated identity that wrap_make_request looks up for that URI.
C5_KeysAreObfuscatedIdentities ==
    \A r \in registered : r[2] = obfuscate_endpoint_path(r[1])

\* the identity the documentation gives: scheme://host/<sha256 of path>
DocumentedIdentity(url) ==
    LET parsed_url == urlparse(url)
    IN  IF Len(parsed_url.path) > 0
        THEN <<parsed_url.scheme, "://", parsed_url.netloc, "/",
               hexdigest(parsed_url.path)>>
        ELSE <<parsed_url.scheme, "://", parsed_url.netloc>>

\* C6: obfuscation maps scheme://host/path to scheme://host/<sha256 of path>
\* and a URL without a path to scheme://host.
C6_ObfuscationKeepsSchemeAndHost ==
    FailedCall
        => last.obfuscated_endpoint = DocumentedIdentity(last.endpoint_uri)

EntriesOf(blockchain) ==
    {i \in 1..Len(health_data) : health_data[i].blockchain = blockchain}

RECURSIVE UnhealthyKeys(_, _)
UnhealthyKeys(hd, blockchain) ==
    IF hd = <<>> THEN <<>>
    ELSE (IF Head(hd).blockchain = blockchain /\ ~Head(hd).is_healthy
          THEN <<Head(hd).endpoint>> ELSE <<>>)
         \o UnhealthyKeys(Tail(hd), blockchain)

\* C7: a flush persists, for every blockchain with an entry in the map, the
\* numbers of its healthy and of its unhealthy entries and the keys of the
\* unhealthy ones, as they are in the map at the flush.
C7_FlushPersistsSnapshot ==
    last.name = "flush" =>
        \A b \in Blockchains :
            EntriesOf(b) /= {} =>
                /\ db[b] /= <<>>
                /\ db[b][1].healthy_total =
                       Cardinality({i \in EntriesOf(b) :
                                       health_data[i].is_healthy})
                /\ db[b][1].unhealthy_total =
                       Cardinality({i \in EntriesOf(b) :
                                       ~health_data[i].is_healthy})
                /\ json_loads(db[b][1].unhealthy_endpoints) =
                       UnhealthyKeys(health_data, b)
                /\ Len(json_loads(db[b][1].unhealthy_endpoints)) =
                       db[b][1].unhealthy_total
                /\ db[b][1].healthy_total + db[b][1].unhealthy_total =
                       Cardinality(EntriesOf(b))

\* a flush of a blockchain with a healthy and an unhealthy endpoint
C7_Witness ==
    /\ last.name = "flush"
    /\ db["AVALANCHE"] /= <<>>
    /\ db["AVALANCHE"][1].healthy_total = 1
    /\ db["AVALANCHE"][1].unhealthy_total = 1

\* C8: a flush that directly follows a flush persists the same records.
C8_FlushTwiceSameRecords ==
    [][(last.name = "flush" /\ last'.name = "flush") => db' = db]_vars

\* two flushes in a row with an unhealthy endpoint on record
C8_Witness ==
    /\ flushes_in_row = 2
    /\ \E b \in Blockchains :
           db[b] /= <<>> /\ db[b][1].unhealthy_total > 0

\* C9: a flush leaves the health map as it is.
C9_FlushLeavesMapUnchanged ==
    [][last'.name = "flush" => health_data' = health_data]_vars

\* after a flush an unhealthy entry is still unhealthy
C9_Witness ==
    /\ last.name = "flush"
    /\ \E i \in 1..Len(health_data) : ~health_data[i].is_healthy

\* C10: a flush that runs beside registrations and failing calls in other
\* threads ends without an error, and counts each entry once, with an
\* is_healthy the entry held at some moment of the flush.
C10_ConcurrentFlushIsSafe ==
    /\ flush_pc /= "error"
    /\ \A i, j \in 1..Len(counted) :
           counted[i].endpoint = counted[j].endpoint => i = j
    /\ \A i \in 1..Len(counted) :
           <<counted[i].endpoint, counted[i].is_healthy>> \in held

\* C11: an entry of the health map is never removed: every key that is in
\* the map before a registration, a wrapped call or a flush is in it after.
C11_EntriesAreNeverRemoved ==
    [][Keys(health_data) \subseteq Keys(health_data')]_vars

\* all configured endpoints are registered, one has failed, a flush has run
C11_Witness ==
    /\ Len(health_data) = 3
    /\ last.name = "flush"
    /\ \E i \in 1..Len(health_data) : ~health_data[i].is_healthy

(***************************************************************************)
(* The blockchain client: starting a transaction submission                *)
(* (BlockchainClient._start_transaction_submission).                       *)
(***************************************************************************)
Returned(type, value) == [kind |-> "return", type |-> type, value |-> value]

Raised(type, value) == [kind |-> "raise", type |-> type, value |-> value]

\* a request of the client's caller: data class
\* _TransactionSubmissionStartRequest
ClientRequest(contract_abi, nonce) ==
    [versioned_contract_abi |-> [contract_abi |-> contract_abi, version |-> 1],
     function_selector |-> "0xa9059cbb",
     function_args |-> <<>>,
     gas |-> None,
     amount |-> None,
     nonce |-> nonce]

contract_address_of_defaulting(contract_abi) ==
    CASE contract_abi = "VISION_TOKEN" -> <<config.vsn_token>>
      [] OTHER -> <<config.hub>>

\* the contract address of a contract ABI; no address stands for the
\* NotImplementedError of the else branch
contract_address_of(contract_abi) ==
    CASE contract_abi = "VISION_HUB" -> <<config.hub>>
      [] contract_abi = "VISION_TOKEN" -> <<config.vsn_token>>
      [] OTHER -> None

max_total_fee_per_gas_unconverted ==
    config.max_total_fee_per_gas

max_total_fee_per_gas_dropped ==
    None

\* config.get('max_total_fee_per_gas'), with 0 turned into None
max_total_fee_per_gas ==
    IF config.max_total_fee_per_gas = <<0>> THEN None
    ELSE config.max_total_fee_per_gas

\* the request the client assembles for the blockchain utilities
TransactionSubmissionStartRequest(contract_address, request) ==
    [contract_address |-> contract_address,
     versioned_contract_abi |-> request.versioned_contract_abi,
     function_selector |-> request.function_selector,
     function_args |-> request.function_args,
     gas |-> request.gas,
     min_adaptable_fee_per_gas |-> config.min_adaptable_fee_per_gas,
     max_total_fee_per_gas |-> max_total_fee_per_gas,
     amount |-> request.amount,
     nonce |-> request.nonce,
     adaptable_fee_increase_factor |-> config.adaptable_fee_increase_factor,
     blocks_until_resubmission |-> config.blocks_until_resubmission]

\* one broadcast of a transaction
Broadcast(nonce, fee, waited) == [nonce |-> nonce, fee |-> fee, after |-> waited]

ExceedsCap(fee, cap) == cap /= None /\ fee > cap[1]

\* BlockchainUtilities.start_transaction_submission: the outcome and the
\* submissions after it.  A nonce below the account's nonce and a fee above
\* the cap fail at once, without a broadcast; otherwise the submission gets
\* a new internal transaction ID and the transaction is broadcast with the
\* minimum fee.
start_transaction_submission(subs, request_) ==
    IF request_.nonce < account_nonce
    THEN [outcome |-> Raised("TransactionNonceTooLowError", <<>>),
          submissions |-> subs]
    ELSE IF ExceedsCap(request_.min_adaptable_fee_per_gas,
                       request_.max_total_fee_per_gas)
    THEN [outcome |-> Raised("MaxTotalFeePerGasExceededError", <<>>),
          submissions |-> subs]
    ELSE [outcome |-> Returned("UUID", <<Len(subs) + 1>>),
          submissions |->
              Append(subs,
                     [request |-> request_,
                      fee |-> request_.min_adaptable_fee_per_gas,
                      waited |-> 0,
                      broadcasts |->
                          <<Broadcast(request_.nonce,
                                      request_.min_adaptable_fee_per_gas, 0)>>,
                      state |-> "pending",
                      transaction_id |-> None])]

start_through_utilities_reusing(request_) ==
    LET started == start_transaction_submission(submissions, request_)
    IN  IF started.outcome.kind = "raise" THEN started
        ELSE [started EXCEPT !.outcome = Returned("UUID", <<1>>)]

start_through_utilities_converting(request_) ==
    LET started == start_transaction_submission(submissions, request_)
    IN  IF started.outcome.kind = "return" THEN started
        ELSE [started EXCEPT
                  !.outcome = Raised("BlockchainClientError", <<>>)]

start_through_utilities_waiting(request_) ==
    LET started == start_transaction_submission(submissions, request_)
    IN  IF started.outcome.kind = "raise" THEN started
        ELSE [started EXCEPT
                  !.submissions[Len(started.submissions)].waited =
                      request_.blocks_until_resubmission]

\* self._get_utilities().start_transaction_submission(request_,
\* node_connections): the client hands on what the utilities return or
\* raise
start_through_utilities(request_) ==
    start_transaction_submission(submissions, request_)

_start_transaction_submission(request) ==
    LET contract_address ==
            contract_address_of(request.versioned_contract_abi.contract_abi)
    IN  IF contract_address = None
        THEN /\ client_last' =
                    [name |-> "_start_transaction_submission",
                     args |-> <<request>>,
                     handed |-> <<>>, lookups |-> <<>>,
                     outcome |-> Raised("NotImplementedError", <<>>)]
             /\ UNCHANGED <<submissions, handed>>
        ELSE LET request_ ==
                     TransactionSubmissionStartRequest(contract_address[1],
                                                       request)
                 started == start_through_utilities(request_)
             IN  /\ submissions' = started.submissions
                 /\ handed' = Append(handed, request_.nonce)
                 /\ client_last' =
                        [name |-> "_start_transaction_submission",
                         args |-> <<request>>,
                         handed |-> <<request_>>, lookups |-> <<>>,
                         outcome |-> started.outcome]

(***************************************************************************)
(* The blockchain and the blockchain utilities' resubmission of a started  *)
(* submission: after blocks_until_resubmission blocks without inclusion    *)
(* the transaction is broadcast again with the same nonce and the fee      *)
(* multiplied by the increase factor, until it is included, the fee would  *)
(* exceed the cap, or the nonce is found to be used up.                    *)
(***************************************************************************)
TransactionStatuses == {"CONFIRMED", "REVERTED"}

\* the hash of the k-th broadcast transaction of a submission
TransactionHash(id, k) == <<"0x", id, k>>

Pending(id) == id \in DOMAIN submissions /\ submissions[id].state = "pending"

Min(a, b) == IF a < b THEN a ELSE b

\* a block is added to the blockchain without any of the pending
\* transactions
NewBlock ==
    /\ \E id \in DOMAIN submissions :
           /\ Pending(id)
           /\ submissions[id].waited <
                  submissions[id].request.blocks_until_resubmission
    /\ submissions' =
           [id \in DOMAIN submissions |->
                IF Pending(id)
                THEN [submissions[id] EXCEPT
                          !.waited =
                              Min(@ + 1,
                                  submissions[id].request
                                      .blocks_until_resubmission)]
                ELSE submissions[id]]
    /\ client_last' = NoClientOperation
    /\ UNCHANGED <<config, account_nonce, jobs, next_nonce, handed>>

\* a block includes the transaction a submission has broadcast last
Include(id, status) ==
    /\ Pending(id)
    /\ submissions[id].request.nonce = account_nonce
    /\ submissions' =
           [submissions EXCEPT
                ![id].state = status,
                ![id].transaction_id =
                    <<TransactionHash(id, Len(submissions[id].broadcasts))>>]
    /\ account_nonce' = account_nonce + 1
    /\ client_last' = NoClientOperation
    /\ UNCHANGED <<config, jobs, next_nonce, handed>>

\* a transaction of the account that no submission of this client made
ExternalTransaction ==
    /\ account_nonce < MaxNonce
    /\ account_nonce' = account_nonce + 1
    /\ client_last' = NoClientOperation
    /\ UNCHANGED <<config, submissions, jobs, next_nonce, handed>>

\* the resubmission of a submission that has waited long enough
Resubmit(id) ==
    /\ Pending(id)
    /\ submissions[id].waited >=
           submissions[id].request.blocks_until_resubmission
    /\ LET s == submissions[id]
           fee == s.fee * s.request.adaptable_fee_increase_factor
       IN  IF s.request.nonce < account_nonce
           THEN submissions' =
                    [submissions EXCEPT ![id].state = "nonce_consumed"]
           ELSE IF ExceedsCap(fee, s.request.max_total_fee_per_gas)
           THEN submissions' =
                    [submissions EXCEPT ![id].state = "fee_cap_exceeded"]
           ELSE /\ fee <= MaxFee
                /\ submissions' =
                       [submissions EXCEPT
                            ![id].fee = fee,
                            ![id].waited = 0,
                            ![id].broadcasts =
                                Append(@, Broadcast(s.request.nonce, fee,
                                                    s.waited))]
    /\ client_last' = NoClientOperation
    /\ UNCHANGED <<config, account_nonce, jobs, next_nonce, handed>>

(***************************************************************************)
(* The blockchain client: the status of a transfer submission              *)
(* (BlockchainClient.get_transfer_submission_status).                      *)
(***************************************************************************)
DestinationBlockchains == {"AVALANCHE", "CELO"}

OnChainTransferIds == {0, 7}

\* BlockchainUtilities.get_transaction_submission_status: the answers the
\* utilities can give for an internal transaction ID.  A submission that
\* is unknown or has been given up cannot be resolved.
get_transaction_submission_status(internal_transaction_id) ==
    IF internal_transaction_id \notin DOMAIN submissions
    THEN {Raised("BlockchainUtilitiesError", <<>>)}
    ELSE LET s == submissions[internal_transaction_id]
         IN  CASE s.state = "pending" ->
                      {Returned("TransactionSubmissionStatusResponse",
                                <<[transaction_submission_completed |-> FALSE,
                                   transaction_status |-> fields[1],
                                   transaction_id |-> fields[2]]>>) :
                           fields \in
                               {<<None, None>>,
                                <<<<"UNINCLUDED">>,
                                  <<TransactionHash(
                                        internal_transaction_id,
                                        Len(s.broadcasts))>>>>}}
               [] s.state \in TransactionStatuses ->
                      {Returned("TransactionSubmissionStatusResponse",
                                <<[transaction_submission_completed |-> TRUE,
                                   transaction_status |-> <<s.state>>,
                                   transaction_id |-> s.transaction_id]>>)}
               [] OTHER -> {Raised("BlockchainUtilitiesError", <<>>)}

\* the outcomes of the lookup of the on-chain transfer ID, which a
\* subclass implements
_read_on_chain_transfer_id ==
    {Returned("int", <<id>>) : id \in OnChainTransferIds} \cup
    {Raised("BlockchainClientError", <<>>)}

_create_unresolvable_transfer_submission_error_unnamed(internal_transaction_id) ==
    Raised("BlockchainUtilitiesError", <<>>)

_create_unresolvable_transfer_submission_error(internal_transaction_id) ==
    Raised("UnresolvableTransferSubmissionError", <<internal_transaction_id>>)

\* data class TransferSubmissionStatusResponse
TransferSubmissionStatusResponse(completed, status, hash, transfer_id) ==
    [transaction_submission_completed |-> completed,
     transaction_status |-> status,
     transaction_id |-> hash,
     on_chain_transfer_id |-> transfer_id]

Lookup(hash, destination_blockchain, read) ==
    [transaction_id |-> hash,
     destination_blockchain |-> destination_blockchain,
     outcome |-> read]

not_completed_response_passing(status_response) ==
    TransferSubmissionStatusResponse(
        FALSE, status_response.transaction_status,
        status_response.transaction_id, None)

\* the response for a submission that is not completed
not_completed_response(status_response) ==
    TransferSubmissionStatusResponse(FALSE, None, None, None)

reads_on_chain_transfer_id_always(transaction_status) ==
    TRUE

\* whether the on-chain transfer ID is looked up
reads_on_chain_transfer_id(transaction_status) ==
    transaction_status = "CONFIRMED"

assertions_hold_without_status(transaction_status, transaction_id) ==
    /\ transaction_status /= None
    /\ transaction_id /= None

\* the two assert statements on a completed submission
assertions_hold(transaction_status, transaction_id) ==
    /\ transaction_status /= None
    /\ transaction_status[1] \in TransactionStatuses
    /\ transaction_id /= None

confirmed_outcome_swallowing(transaction_status, transaction_id, read) ==
    Returned("TransferSubmissionStatusResponse",
             <<TransferSubmissionStatusResponse(
                   TRUE, transaction_status, transaction_id,
                   IF read.kind = "raise" THEN None ELSE read.value)>>)

\* how the method ends after the lookup of the on-chain transfer ID
confirmed_outcome(transaction_status, transaction_id, read) ==
    IF read.kind = "raise" THEN read
    ELSE Returned("TransferSubmissionStatusResponse",
                  <<TransferSubmissionStatusResponse(
                        TRUE, transaction_status, transaction_id,
                        read.value)>>)

\* what the method hands its caller and which lookups it makes, given the
\* answer of the utilities and the outcome a lookup would have
transfer_submission_status(internal_transaction_id, destination_blockchain, answer, read) ==
    IF answer.kind = "raise"
    THEN [outcome |->
              _create_unresolvable_transfer_submission_error(
                  internal_transaction_id),
          lookups |-> <<>>]
    ELSE LET status_response == answer.value[1]
             transaction_status == status_response.transaction_status
             transaction_id == status_response.transaction_id
         IN  IF ~status_response.transaction_submission_completed
             THEN [outcome |->
                       Returned("TransferSubmissionStatusResponse",
                                <<not_completed_response(status_response)>>),
                   lookups |-> <<>>]
             ELSE IF ~assertions_hold(transaction_status, transaction_id)
             THEN [outcome |-> Raised("AssertionError", <<>>),
                   lookups |-> <<>>]
             ELSE IF ~reads_on_chain_transfer_id(transaction_status[1])
             THEN [outcome |->
                       Returned("TransferSubmissionStatusResponse",
                                <<TransferSubmissionStatusResponse(
                                      TRUE, transaction_status,
                                      transaction_id, None)>>),
                   lookups |-> <<>>]
             ELSE [outcome |->
                       confirmed_outcome(transaction_status, transaction_id,
                                         read),
                   lookups |->
                       <<Lookup(transaction_id[1], destination_blockchain,
                                read)>>]

\* the outcomes a lookup can have after an answer of the utilities: all
\* of them for a completed submission; for any other answer the method
\* has returned or raised before the lookup, and one outcome stands for
\* all
lookup_outcomes(answer) ==
    IF answer.kind = "return"
           /\ answer.value[1].transaction_submission_completed
    THEN _read_on_chain_transfer_id
    ELSE {Raised("BlockchainClientError", <<>>)}

get_transfer_submission_status(internal_transaction_id, destination_blockchain) ==
    /\ \E answer \in
              get_transaction_submission_status(internal_transaction_id) :
       \E read \in lookup_outcomes(answer) :
           LET result ==
                   transfer_submission_status(internal_transaction_id,
                                              destination_blockchain,
                                              answer, read)
           IN  client_last' =
                   [name |-> "get_transfer_submission_status",
                    args |-> <<internal_transaction_id,
                               destination_blockchain>>,
                    handed |-> <<answer>>,
                    lookups |-> result.lookups,
                    outcome |-> result.outcome]
    /\ UNCHANGED <<config, submissions, account_nonce, jobs, next_nonce,
                   handed>>

(***************************************************************************)
(* The blockchain client: starting a depending transaction submission      *)
(* (BlockchainClient._start_depending_transactions_submission), and the    *)
(* delayed job that starts the dependent transaction.                      *)
(***************************************************************************)
MaxJobs == 1

BlocksToWait == {1}

\* data class _DependingTransactionSubmissionStartRequest
DependingRequest(prerequisite_transaction, dependent_transaction, blocks_to_wait) ==
    [prerequisite_transaction |-> prerequisite_transaction,
     dependent_transaction |-> dependent_transaction,
     blocks_to_wait |-> blocks_to_wait]

\* TransactionSubmissionStartRequest.to_dict and its inverse
to_dict(request_) == [type |-> "dict", items |-> request_]

from_dict(dict) == dict.items

delay_unrelated(prerequisite_internal_id, blocks_to_wait, dependent_request) ==
    [blockchain_id |-> "AVALANCHE",
     prerequisite_internal_id |-> ToString(0),
     blocks_to_wait |-> blocks_to_wait,
     average_block_time |-> config.average_block_time,
     request |-> to_dict(dependent_request),
     elapsed |-> 0,
     state |-> "queued",
     outcome |-> [kind |-> "none", type |-> "none", value |-> <<>>]]

delay_immediate(prerequisite_internal_id, blocks_to_wait, dependent_request) ==
    [blockchain_id |-> "AVALANCHE",
     prerequisite_internal_id |-> ToString(prerequisite_internal_id),
     blocks_to_wait |-> blocks_to_wait,
     average_block_time |-> 0,
     request |-> to_dict(dependent_request),
     elapsed |-> 0,
     state |-> "queued",
     outcome |-> [kind |-> "none", type |-> "none", value |-> <<>>]]

delay_revocable(prerequisite_internal_id, blocks_to_wait, dependent_request) ==
    [blockchain_id |-> "AVALANCHE",
     prerequisite_internal_id |-> ToString(prerequisite_internal_id),
     blocks_to_wait |-> blocks_to_wait,
     average_block_time |-> config.average_block_time,
     request |-> to_dict(dependent_request),
     elapsed |-> 0,
     state |-> "revoked",
     outcome |-> [kind |-> "none", type |-> "none", value |-> <<>>]]

\* _dependent_transaction_submission_task.delay(...): the job as enqueued
delay(prerequisite_internal_id, blocks_to_wait, dependent_request) ==
    [blockchain_id |-> "AVALANCHE",
     prerequisite_internal_id |-> ToString(prerequisite_internal_id),
     blocks_to_wait |-> blocks_to_wait,
     average_block_time |-> config.average_block_time,
     request |-> to_dict(dependent_request),
     elapsed |-> 0,
     state |-> "queued",
     outcome |-> [kind |-> "none", type |-> "none", value |-> <<>>]]

dependent_request_of_copied(contract_address, request) ==
    [TransactionSubmissionStartRequest(contract_address,
                                       request.dependent_transaction)
        EXCEPT !.nonce = request.prerequisite_transaction.nonce]

\* the request for the dependent transaction as assembled
dependent_request_of(contract_address, request) ==
    TransactionSubmissionStartRequest(contract_address,
                                      request.dependent_transaction)

_start_depending_transactions_submission(request) ==
    LET contract_address ==
            contract_address_of(
                request.prerequisite_transaction.versioned_contract_abi
                    .contract_abi)
    IN  IF contract_address = None
        THEN /\ client_last' =
                    [name |-> "_start_depending_transactions_submission",
                     args |-> <<request>>,
                     handed |-> <<>>, lookups |-> <<>>,
                     outcome |-> Raised("NotImplementedError", <<>>)]
             /\ UNCHANGED <<submissions, handed, jobs>>
        ELSE LET prerequisite_request ==
                     TransactionSubmissionStartRequest(
                         contract_address[1], request.prerequisite_transaction)
                 started == start_through_utilities(prerequisite_request)
                 dependent_request ==
                     dependent_request_of(contract_address[1], request)
             IN  /\ submissions' = started.submissions
                 /\ IF started.outcome.kind = "raise"
                    THEN /\ handed' =
                                Append(handed, prerequisite_request.nonce)
                         /\ client_last' =
                                [name |->
                                     "_start_depending_transactions_submission",
                                 args |-> <<request>>,
                                 handed |-> <<prerequisite_request>>,
                                 lookups |-> <<>>,
                                 outcome |-> started.outcome]
                         /\ UNCHANGED jobs
                    ELSE /\ handed' =
                                handed \o <<prerequisite_request.nonce,
                                            dependent_request.nonce>>
                         /\ jobs' =
                                Append(jobs,
                                       delay(started.outcome.value[1],
                                             request.blocks_to_wait,
                                             dependent_request))
                         /\ client_last' =
                                [name |->
                                     "_start_depending_transactions_submission",
                                 args |-> <<request>>,
                                 handed |-> <<prerequisite_request,
                                              dependent_request>>,
                                 lookups |-> <<>>,
                                 outcome |->
                                     Returned("AsyncResult",
                                              <<Len(jobs) + 1>>)]

Queued(j) == j \in DOMAIN jobs /\ jobs[j].state = "queued"

Delay(j) == jobs[j].blocks_to_wait * jobs[j].average_block_time

\* a second passes
Tick ==
    /\ \E j \in DOMAIN jobs : Queued(j) /\ jobs[j].elapsed < Delay(j)
    /\ jobs' =
           [j \in DOMAIN jobs |->
                IF Queued(j)
                THEN [jobs[j] EXCEPT !.elapsed = Min(@ + 1, Delay(j))]
                ELSE jobs[j]]
    /\ client_last' = NoClientOperation
    /\ UNCHANGED <<config, submissions, account_nonce, next_nonce, handed>>

\* the job fires: _dependent_transaction_submission_task starts the
\* dependent transaction's submission
_dependent_transaction_submission_task(j) ==
    /\ Queued(j)
    /\ jobs[j].elapsed >= Delay(j)
    /\ LET started ==
               start_transaction_submission(submissions,
                                            from_dict(jobs[j].request))
       IN  /\ submissions' = started.submissions
           /\ jobs' = [jobs EXCEPT ![j].state = "done",
                                   ![j].outcome = started.outcome]
    /\ client_last' = NoClientOperation
    /\ UNCHANGED <<config, account_nonce, next_nonce, handed>>

(***************************************************************************)
(* The client's caller, which assigns the nonces, and the specification    *)
(* of the blockchain client.                                               *)
(***************************************************************************)
\* the submissions that can still be started within the bounds
Room ==
    MaxSubmissions - Len(submissions)
        - Cardinality({j \in DOMAIN jobs : Queued(j)})

start_single(contract_abi) ==
    /\ Room >= 1
    /\ next_nonce < MaxNonce
    /\ _start_transaction_submission(ClientRequest(contract_abi, next_nonce))
    /\ next_nonce' = next_nonce + 1
    /\ UNCHANGED <<config, account_nonce, jobs>>

start_depending(prerequisite_abi, dependent_abi, blocks_to_wait) ==
    /\ Room >= 2
    /\ Len(jobs) < MaxJobs
    /\ next_nonce + 1 < MaxNonce
    /\ _start_depending_transactions_submission(
           DependingRequest(ClientRequest(prerequisite_abi, next_nonce),
                            ClientRequest(dependent_abi, next_nonce + 1),
                            blocks_to_wait))
    /\ next_nonce' = next_nonce + 2
    /\ UNCHANGED <<config, account_nonce>>

InitClient ==
    /\ HealthIdle
    /\ config \in Configs
    /\ ClientIdle

NextClient ==
    \/ \E contract_abi \in ContractAbis :
           start_single(contract_abi) /\ UNCHANGED health_vars
    \/ \E prerequisite_abi \in ContractAbis, dependent_abi \in ContractAbis,
          blocks_to_wait \in BlocksToWait :
           start_depending(prerequisite_abi, dependent_abi, blocks_to_wait)
               /\ UNCHANGED health_vars
    \/ NewBlock /\ UNCHANGED health_vars
    \/ \E id \in 1..MaxSubmissions, status \in TransactionStatuses :
           Include(id, status) /\ UNCHANGED health_vars
    \/ ExternalTransaction /\ UNCHANGED health_vars
    \/ \E id \in 1..MaxSubmissions : Resubmit(id) /\ UNCHANGED health_vars
    \/ Tick /\ UNCHANGED health_vars
    \/ \E j \in 1..MaxJobs :
           _dependent_transaction_submission_task(j) /\ UNCHANGED health_vars

SpecClient == InitClient /\ [][NextClient]_vars

(***************************************************************************)
(* The specification of the status queries: with one configuration,        *)
(* submissions of one contract are started, make their way on the          *)
(* blockchain and are asked about; another transaction of the account      *)
(* uses a nonce that the caller has assigned.  A status query changes      *)
(* nothing but what its caller sees.                                       *)
(***************************************************************************)
NextStatus ==
    \/ \E contract_abi \in {"VISION_HUB"} :
           start_single(contract_abi) /\ UNCHANGED health_vars
    \/ \E internal_transaction_id \in 1..MaxSubmissions,
          destination_blockchain \in DestinationBlockchains :
           get_transfer_submission_status(internal_transaction_id,
                                          destination_blockchain)
               /\ UNCHANGED health_vars
    \/ NewBlock /\ UNCHANGED health_vars
    \/ \E id \in 1..MaxSubmissions, status \in TransactionStatuses :
           Include(id, status) /\ UNCHANGED health_vars
    \/ /\ account_nonce < next_nonce
       /\ ExternalTransaction
       /\ UNCHANGED health_vars
    \/ \E id \in 1..MaxSubmissions : Resubmit(id) /\ UNCHANGED health_vars
    \/ \E blocks_to_wait \in BlocksToWait :
           start_depending("VISION_HUB", "VISION_HUB", blocks_to_wait)
               /\ UNCHANGED health_vars
    \/ Tick /\ UNCHANGED health_vars
    \/ \E j \in 1..MaxJobs :
           _dependent_transaction_submission_task(j) /\ UNCHANGED health_vars

SpecStatus == Init /\ [][NextStatus]_vars

(***************************************************************************)
(* Claims about the status of a transfer submission.                       *)
(***************************************************************************)
StatusQuery == client_last.name = "get_transfer_submission_status"

Queried == client_last.args[1]

Answer == client_last.handed[1]

\* C12: a status query for a submission that is still pending (no
\* broadcast of it is included in a block, and it has not been given up)
\* returns a response with transaction_submission_completed = FALSE and no
\* transaction status, no transaction ID and no on-chain transfer ID, and
\* looks up no on-chain transfer ID.
C12_PendingIsNotCompleted ==
    (StatusQuery /\ Pending(Queried)) =>
        /\ client_last.outcome =
               Returned("TransferSubmissionStatusResponse",
                        <<TransferSubmissionStatusResponse(
                              FALSE, None, None, None)>>)
        /\ client_last.lookups = <<>>

\* a resubmitted, still pending submission is asked about, and the
\* utilities' answer names the transaction broadcast last
C12_Witness ==
    /\ StatusQuery
    /\ Pending(Queried)
    /\ Len(submissions[Queried].broadcasts) = 2
    /\ Answer.value[1].transaction_id = <<TransactionHash(Queried, 2)>>
    /\ ~client_last.outcome.value[1].transaction_submission_completed

\* C13: a status query for a submission whose transaction is included
\* returns completed = TRUE with the status and the ID of the transaction.
\* If the status is CONFIRMED, the on-chain transfer ID is looked up once,
\* for that transaction and the destination blockchain of the query, and
\* the response carries the ID the lookup returned (the query fails as the
\* lookup does if it fails); if the status is REVERTED, the response has
\* no on-chain transfer ID and nothing is looked up.
C13_CompletedCarriesStatusAndTransferId ==
    (StatusQuery /\ Queried \in DOMAIN submissions
         /\ submissions[Queried].state \in TransactionStatuses) =>
        LET s == submissions[Queried]
            outcome == client_last.outcome
            lookups == client_last.lookups
        IN  /\ outcome.kind = "return" =>
                   /\ outcome.value[1].transaction_submission_completed
                   /\ outcome.value[1].transaction_status = <<s.state>>
                   /\ outcome.value[1].transaction_id = s.transaction_id
            /\ s.state = "CONFIRMED" =>
                   /\ Len(lookups) = 1
                   /\ lookups[1].transaction_id = s.transaction_id[1]
                   /\ lookups[1].destination_blockchain = client_last.args[2]
                   /\ outcome.kind = lookups[1].outcome.kind
                   /\ outcome.kind = "raise" => outcome = lookups[1].outcome
                   /\ outcome.kind = "return" =>
                          /\ outcome.value[1].on_chain_transfer_id /= None
                          /\ outcome.value[1].on_chain_transfer_id =
                                 lookups[1].outcome.value
            /\ s.state = "REVERTED" =>
                   /\ outcome.kind = "return"
                   /\ outcome.value[1].on_chain_transfer_id = None
                   /\ lookups = <<>>

\* the second broadcast of a submission is confirmed, and the lookup for
\* the destination blockchain returns the on-chain transfer ID 0
C13_Witness ==
    /\ StatusQuery
    /\ Queried \in DOMAIN submissions
    /\ submissions[Queried].state = "CONFIRMED"
    /\ submissions[Queried].transaction_id = <<TransactionHash(Queried, 2)>>
    /\ client_last.args[2] = "CELO"
    /\ client_last.outcome.kind = "return"
    /\ client_last.outcome.value[1].on_chain_transfer_id = <<0>>

\* C14: if the utilities raise their error on the status query, the query
\* raises the unresolvable-transfer-submission error, which carries the
\* internal transaction ID of the query; it returns no response and looks
\* up no on-chain transfer ID.
C14_UnresolvableSubmissionRaises ==
    (StatusQuery /\ Answer.kind = "raise") =>
        /\ client_last.outcome =
               Raised("UnresolvableTransferSubmissionError", <<Queried>>)
        /\ client_last.lookups = <<>>

\* the nonce of a submission was used up by another transaction and the
\* submission given up; the utilities cannot resolve it
C14_Witness ==
    /\ StatusQuery
    /\ Queried \in DOMAIN submissions
    /\ submissions[Queried].state = "nonce_consumed"
    /\ Answer = Raised("BlockchainUtilitiesError", <<>>)
    /\ client_last.outcome.kind = "raise"

(***************************************************************************)
(* Claims about starting transaction submissions.                          *)
(***************************************************************************)
StartQuery ==
    client_last.name \in {"_start_transaction_submission",
                          "_start_depending_transactions_submission"}

\* a submission is as it was started: broadcast once, no block waited for
JustStarted(id) ==
    /\ id \in DOMAIN submissions
    /\ submissions[id].state = "pending"
    /\ submissions[id].waited = 0
    /\ Len(submissions[id].broadcasts) = 1

CapUnset == config.max_total_fee_per_gas \in {None, <<0>>}

\* the cap a request of this configuration is to carry
CapToHandOn == IF CapUnset THEN None ELSE config.max_total_fee_per_gas

\* the requests the utilities have got or will get: of the last start, of
\* the submissions and of the jobs
RequestsHandedOn ==
    {client_last.handed[i] :
         i \in {k \in DOMAIN client_last.handed : StartQuery}}
        \cup {submissions[id].request : id \in DOMAIN submissions}
        \cup {from_dict(jobs[j].request) : j \in DOMAIN jobs}

\* C16: with a configured max_total_fee_per_gas of 0 every request (of a
\* single submission, of the prerequisite and of the dependent transaction
\* of a depending submission) is handed to the utilities without a cap, as
\* it is with no configured cap; no start and no resubmission of it fails
\* by exceeding a cap, whatever its fee has grown to.  A non-zero cap is
\* handed on unchanged.
C16_ZeroCapMeansNoCap ==
    /\ \A request_ \in RequestsHandedOn :
           request_.max_total_fee_per_gas = CapToHandOn
    /\ CapUnset =>
           /\ client_last.outcome.type /= "MaxTotalFeePerGasExceededError"
           /\ \A j \in DOMAIN jobs :
                  jobs[j].outcome.type /= "MaxTotalFeePerGasExceededError"
           /\ \A id \in DOMAIN submissions :
                  submissions[id].state /= "fee_cap_exceeded"

\* with a configured cap of 0 the dependent transaction of a depending
\* submission has been started by its job and resubmitted, with a fee of 2
C16_Witness ==
    /\ config.max_total_fee_per_gas = <<0>>
    /\ Len(jobs) = 1
    /\ jobs[1].state = "done"
    /\ Len(submissions) = 2
    /\ submissions[2].fee = 2
    /\ Len(submissions[2].broadcasts) = 2

(***************************************************************************)
(* Claims about the resubmission of a started submission.                  *)
(***************************************************************************)
\* C17: all broadcasts of a submission carry the nonce of its request; the
\* first is made with the configured minimum fee, every later one only
\* after blocks_until_resubmission blocks without inclusion and with the
\* fee of the one before multiplied by the increase factor; and with a
\* configured (non-zero) maximum total fee per gas no broadcast is made
\* with a fee above it.
C17_RebroadcastsKeepNonceAndRaiseFee ==
    \A id \in DOMAIN submissions :
        LET s == submissions[id]
        IN  /\ s.broadcasts[1].fee = config.min_adaptable_fee_per_gas
            /\ \A k \in DOMAIN s.broadcasts :
                   /\ s.broadcasts[k].nonce = s.request.nonce
                   /\ ~CapUnset =>
                          s.broadcasts[k].fee <=
                              config.max_total_fee_per_gas[1]
                   /\ k > 1 =>
                          /\ s.broadcasts[k].after >=
                                 config.blocks_until_resubmission
                          /\ s.broadcasts[k].fee =
                                 s.broadcasts[k - 1].fee
                                     * config.adaptable_fee_increase_factor

\* a submission was broadcast with the fees 1 and 2, the second time
\* after a block without inclusion, and is then confirmed, while a
\* submission with a cap of 1 would have been given up
C17_Witness ==
    /\ config.max_total_fee_per_gas = None
    /\ \E id \in DOMAIN submissions :
           /\ submissions[id].state = "CONFIRMED"
           /\ Len(submissions[id].broadcasts) = 2
           /\ submissions[id].broadcasts[2].fee = 2
           /\ submissions[id].broadcasts[2].after = 1
           /\ ExceedsCap(submissions[id].broadcasts[2].fee, <<1>>)

(***************************************************************************)
(* The specification of the blockchain client with the fairness that the   *)
(* blockchain and the task queue give: blocks keep being added, and a      *)
(* resubmission that is due is made.                                       *)
(***************************************************************************)
Fairness ==
    /\ WF_vars(NewBlock /\ UNCHANGED health_vars)
    /\ \A id \in 1..MaxSubmissions :
           WF_vars(Resubmit(id) /\ UNCHANGED health_vars)

\* a client whose configuration has a non-zero cap
InitClientCapped ==
    /\ InitClient
    /\ ~CapUnset

SpecClientFair == InitClientCapped /\ [][NextClient]_vars /\ Fairness

GivenUp(id) ==
    /\ id \in DOMAIN submissions
    /\ submissions[id].state \in {"fee_cap_exceeded", "nonce_consumed"}

Included(id) ==
    /\ id \in DOMAIN submissions
    /\ submissions[id].state \in TransactionStatuses

\* a submission stays, and what has started stays started; a pending
\* submission stays pending, is included or is given up, and a
\* submission that is not pending stays as it is
SubmissionsOnlyEndInOutcomes ==
    /\ Len(submissions') >= Len(submissions)
    /\ \A id \in DOMAIN submissions :
           /\ submissions'[id].request = submissions[id].request
           /\ ~Pending(id) => submissions'[id] = submissions[id]
           /\ Pending(id) =>
                  \/ submissions'[id].state = "pending"
                  \/ submissions'[id].state \in TransactionStatuses
                  \/ submissions'[id].state \in
                         {"fee_cap_exceeded", "nonce_consumed"}
           /\ submissions'[id].state = "fee_cap_exceeded" =>
                  ExceedsCap(submissions[id].fee
                                 * config.adaptable_fee_increase_factor,
                             config.max_total_fee_per_gas)
           /\ (Pending(id) /\ submissions'[id].state = "nonce_consumed") =>
                  submissions[id].request.nonce < account_nonce

NothingBroadcastWith(nonce) ==
    \A id \in DOMAIN submissions : submissions[id].request.nonce /= nonce

\* C19: a start (of a submission, or of the prerequisite of a depending
\* submission) whose nonce is below the account's nonce on the blockchain
\* raises TransactionNonceTooLowError to the caller after a single call of
\* the utilities, and nothing is broadcast and no job queued for it; a
\* start whose minimum fee exceeds the cap raises
\* MaxTotalFeePerGasExceededError in the same way.
C19_StartErrorsReachTheCaller ==
    (StartQuery /\ client_last.handed /= <<>>) =>
        LET request_ == client_last.handed[1]
            too_low == request_.nonce < account_nonce
            above_cap ==
                ExceedsCap(config.min_adaptable_fee_per_gas, CapToHandOn)
        IN  /\ too_low =>
                   client_last.outcome =
                       Raised("TransactionNonceTooLowError", <<>>)
            /\ (~too_low /\ above_cap) =>
                   client_last.outcome =
                       Raised("MaxTotalFeePerGasExceededError", <<>>)
            /\ (too_low \/ above_cap) =>
                   /\ Len(client_last.handed) = 1
                   /\ NothingBroadcastWith(request_.nonce)
                   /\ \A j \in DOMAIN jobs :
                          from_dict(jobs[j].request).nonce /=
                              request_.nonce + 1
            /\ ~(too_low \/ above_cap) => client_last.outcome.kind = "return"

\* after another transaction of the account has used the nonce 1, the
\* start of a second submission with this nonce fails; the first
\* submission stays the only one
C19_Witness ==
    /\ client_last.name = "_start_transaction_submission"
    /\ client_last.outcome.type = "TransactionNonceTooLowError"
    /\ client_last.handed[1].nonce = 1
    /\ account_nonce = 2
    /\ Len(submissions) = 1

StartedId ==
    IF client_last.name = "_start_transaction_submission"
           /\ client_last.outcome.kind = "return"
    THEN client_last.outcome.value
    ELSE IF client_last.name = "_start_depending_transactions_submission"
                /\ client_last.outcome.kind = "return"
    THEN <<CHOOSE id \in 0..MaxSubmissions + 1 :
               \/ ToString(id) =
                      jobs[client_last.outcome.value[1]]
                          .prerequisite_internal_id
               \/ /\ id = 0
                  /\ \A other \in 1..MaxSubmissions + 1 :
                         ToString(other) /=
                             jobs[client_last.outcome.value[1]]
                                 .prerequisite_internal_id>>
    ELSE None

\* a step keeps every submission under its internal transaction ID, with
\* its request and with the broadcasts made so far
SubmissionsKeepTheirIds ==
    \A id \in DOMAIN submissions :
        /\ id \in DOMAIN submissions'
        /\ submissions'[id].request = submissions[id].request
        /\ SubSeq(submissions'[id].broadcasts, 1,
                  Len(submissions[id].broadcasts)) =
               submissions[id].broadcasts

\* C21: an internal transaction ID is never reused.  The ID that a start
\* hands on (to its caller, or to the job of a depending submission) and
\* the ID that a job gets for the dependent transaction denote a
\* submission that did not exist before the step, with the request of
\* that start; and an ID denotes the same submission, with one request
\* and one nonce, as long as the process lives.
C21_InternalIdsAreNeverReused ==
    [][/\ SubmissionsKeepTheirIds
       /\ StartedId' /= None =>
              /\ StartedId'[1] \notin DOMAIN submissions
              /\ StartedId'[1] \in DOMAIN submissions'
              /\ submissions'[StartedId'[1]].request = client_last'.handed[1]
       /\ \A j \in DOMAIN jobs' :
              (/\ jobs'[j].state = "done"
               /\ jobs'[j].outcome.kind = "return"
               /\ j \in DOMAIN jobs => jobs[j].state = "queued") =>
                  /\ jobs'[j].outcome.value[1] \notin DOMAIN submissions
                  /\ jobs'[j].outcome.value[1] \in DOMAIN submissions'
                  /\ submissions'[jobs'[j].outcome.value[1]].request =
                         from_dict(jobs'[j].request)]_vars

\* a second submission has been started while the first, resubmitted once,
\* is still pending
C21_Witness ==
    /\ client_last.name = "_start_transaction_submission"
    /\ client_last.outcome = Returned("UUID", <<2>>)
    /\ Len(submissions) = 2
    /\ Len(submissions[1].broadcasts) = 2
    /\ submissions[1].state = "pending"

DependingStart ==
    client_last.name = "_start_depending_transactions_submission"

\* the submission whose internal transaction ID job j carries
PrerequisiteOf(j) ==
    {id \in DOMAIN submissions :
         ToString(id) = jobs[j].prerequisite_internal_id}

\* C22: the job for the dependent transaction is enqueued only by a
\* depending start whose prerequisite has been started at the utilities,
\* after the start and with the ID got from it: the job carries the ID of
\* the submission just started for the prerequisite request (which is
\* pending, neither included nor confirmed), the blocks_to_wait of the
\* request, the configured average block time and the dependent request.
\* A depending start whose prerequisite start raises enqueues no job.
C22_JobIsEnqueuedAfterThePrerequisiteStart ==
    [][/\ jobs' /= jobs /\ Len(jobs') /= Len(jobs) =>
              /\ DependingStart'
              /\ client_last'.outcome.kind = "return"
              /\ Len(jobs') = Len(jobs) + 1
              /\ SubSeq(jobs', 1, Len(jobs)) = jobs
              /\ LET job == jobs'[Len(jobs')]
                 IN  /\ \E id \in (DOMAIN submissions') \ DOMAIN submissions :
                            /\ job.prerequisite_internal_id = ToString(id)
                            /\ submissions'[id].request =
                                   client_last'.handed[1]
                            /\ submissions'[id].state = "pending"
                     /\ job.blocks_to_wait =
                            client_last'.args[1].blocks_to_wait
                     /\ job.average_block_time = config.average_block_time
                     /\ from_dict(job.request) = client_last'.handed[2]
                     /\ job.state = "queued"
       /\ DependingStart' /\ client_last'.outcome.kind = "raise" =>
              jobs' = jobs
       /\ DependingStart' /\ client_last'.outcome.kind = "return" =>
              Len(jobs') = Len(jobs) + 1]_vars

\* a depending start has just enqueued a job that waits a block for a
\* prerequisite that is only started
C22_Witness ==
    /\ DependingStart
    /\ client_last.outcome.kind = "return"
    /\ Len(jobs) = 1
    /\ jobs[1].blocks_to_wait = 1
    /\ jobs[1].average_block_time = 2
    /\ jobs[1].state = "queued"
    /\ \E id \in PrerequisiteOf(1) :
           /\ submissions[id].state = "pending"
           /\ Len(submissions[id].broadcasts) = 1

\* a depending start whose prerequisite start has raised: no job
C22_WitnessRaised ==
    /\ DependingStart
    /\ client_last.outcome.kind = "raise"
    /\ client_last.handed /= <<>>
    /\ jobs = <<>>

\* C23: a depending start that succeeds returns the internal transaction
\* ID of the prerequisite submission, the ID of the submission started
\* for the prerequisite request, which a status query accepts; the ID of
\* the dependent submission is not returned.
C23_DependingStartReturnsThePrerequisiteId ==
    DependingStart /\ client_last.outcome.kind = "return" =>
        \E id \in DOMAIN submissions :
            /\ submissions[id].request = client_last.handed[1]
            /\ client_last.outcome = Returned("UUID", <<id>>)

FairnessOfJobs ==
    /\ WF_vars(Tick /\ UNCHANGED health_vars)
    /\ \A j \in 1..MaxJobs :
           WF_vars(_dependent_transaction_submission_task(j)
                       /\ UNCHANGED health_vars)

SpecClientJobsFair == InitClientCapped /\ [][NextClient]_vars /\ FairnessOfJobs

\* the job j has started the dependent transaction's submission at the
\* utilities, which have answered
DependentStarted(j) ==
    /\ j \in DOMAIN jobs
    /\ jobs[j].state = "done"
    /\ jobs[j].outcome.kind /= "none"

C25_WitnessReverted ==
    /\ DependentStarted(1)
    /\ \E id \in PrerequisiteOf(1) : submissions[id].state = "REVERTED"

\* ... while the prerequisite is still pending
C25_WitnessPending ==
    /\ DependentStarted(1)
    /\ jobs[1].outcome.kind = "return"
    /\ \E id \in PrerequisiteOf(1) : submissions[id].state = "pending"

(***************************************************************************)
(* The construction of a blockchain client.  The configuration, the        *)
(* protocol version and the answer of the utilities' initialization are    *)
(* inputs; the last construction is kept in client_last.                   *)
(***************************************************************************)
Variants ==
    {"AvalancheClient", "BnbChainClient", "CeloClient", "CronosClient",
     "PolygonClient"}

\* XClient.get_blockchain
get_blockchain(variant) ==
    CASE variant = "AvalancheClient" -> "AVALANCHE"
      [] variant = "BnbChainClient" -> "BNB_CHAIN"
      [] variant = "CeloClient" -> "CELO"
      [] variant = "CronosClient" -> "CRONOS"
      [] variant = "PolygonClient" -> "POLYGON"

get_error_class_of_base(variant) == "BlockchainClientError"

\* XClient.get_error_class
get_error_class(variant) ==
    CASE variant = "AvalancheClient" -> "AvalancheClientError"
      [] variant = "BnbChainClient" -> "BnbChainClientError"
      [] variant = "CeloClient" -> "CeloClientError"
      [] variant = "CronosClient" -> "CronosClientError"
      [] variant = "PolygonClient" -> "PolygonClientError"

\* config['protocol'], as <<major, minor, patch>>
Protocols == {<<0, 1, 0>>, <<0, 2, 0>>, <<1, 0, 0>>}

\* the versions of the protocol that the service node supports
is_supported_protocol_version(version) ==
    version \in {<<0, 1, 0>>, <<0, 2, 0>>}

\* the blockchain's part of the configuration: fallback_providers and
\* chain_id can be absent
ChainConfigs ==
    [provider : {"https://provider"},
     fallback_providers : {None, <<<<>>>>, <<<<"https://fallback">>>>},
     average_block_time : {2},
     confirmations : {1},
     chain_id : {None, <<1>>},
     private_key : {"key"},
     private_key_password : {"password"}]

\* dict.get(key, default)
get(value, default) == IF value = None THEN default ELSE value[1]

UtilitiesAnswers == {"initialized", "BlockchainUtilitiesError"}

\* the call of initialize_blockchain_utilities and its answer
initialize_blockchain_utilities(blockchain, chain_config, answer) ==
    [blockchain |-> blockchain,
     blockchain_nodes_urls |-> <<chain_config.provider>>,
     fallback_blockchain_nodes_urls |->
         get(chain_config.fallback_providers, <<>>),
     average_block_time |-> chain_config.average_block_time,
     required_transaction_confirmations |-> chain_config.confirmations,
     transaction_network_id |-> chain_config.chain_id,
     default_private_key |->
         <<chain_config.private_key, chain_config.private_key_password>>,
     celery_tasks_enabled |-> TRUE,
     answer |-> answer]

create_by_assertion_after(variant, protocol, chain_config, answer) ==
    LET call ==
            initialize_blockchain_utilities(get_blockchain(variant),
                                            chain_config, answer)
    IN  IF answer = "BlockchainUtilitiesError"
        THEN [handed |-> <<call>>,
              outcome |-> Raised(get_error_class(variant), <<>>)]
        ELSE IF ~is_supported_protocol_version(protocol)
        THEN [handed |-> <<call>>,
              outcome |-> Raised("AssertionError", <<>>)]
        ELSE [handed |-> <<call>>,
              outcome |->
                  Returned(variant,
                           <<[blockchain |-> get_blockchain(variant),
                              protocol_version |-> protocol]>>)]

\* BlockchainClient.__init__ for a variant: what it hands to the
\* utilities and how it ends
create(variant, protocol, chain_config, answer) ==
    LET call ==
            initialize_blockchain_utilities(get_blockchain(variant),
                                            chain_config, answer)
    IN  IF ~is_supported_protocol_version(protocol)
        THEN [handed |-> <<>>, outcome |-> Raised("AssertionError", <<>>)]
        ELSE IF answer = "BlockchainUtilitiesError"
        THEN [handed |-> <<call>>,
              outcome |-> Raised(get_error_class(variant), <<>>)]
        ELSE [handed |-> <<call>>,
              outcome |->
                  Returned(variant,
                           <<[blockchain |-> get_blockchain(variant),
                              protocol_version |-> protocol]>>)]

\* a client of a variant is constructed
__init__(variant, protocol, chain_config, answer) ==
    LET created == create(variant, protocol, chain_config, answer)
    IN  /\ client_last' =
               [name |-> "__init__",
                args |-> <<variant, protocol, chain_config>>,
                handed |-> created.handed,
                lookups |-> <<>>,
                outcome |-> created.outcome]
        /\ UNCHANGED <<config, submissions, account_nonce, jobs, next_nonce,
                       handed>>

NextConstruction ==
    \E variant \in Variants, protocol \in Protocols,
       chain_config \in ChainConfigs, answer \in UtilitiesAnswers :
        __init__(variant, protocol, chain_config, answer)
            /\ UNCHANGED health_vars

SpecConstruction == Init /\ [][NextConstruction]_vars

Constructed == client_last.name = "__init__"

\* the blockchain of each variant of the client
BlockchainOfVariant ==
    [AvalancheClient |-> "AVALANCHE", BnbChainClient |-> "BNB_CHAIN",
     CeloClient |-> "CELO", CronosClient |-> "CRONOS",
     PolygonClient |-> "POLYGON"]

\* C26: for each of the five variants, a construction with a supported
\* protocol version (and utilities that initialize) succeeds, and the
\* client reports the blockchain of its variant, a different one for each
\* variant, and the configured protocol version; a construction with an
\* unsupported version fails before anything is handed to the utilities'
\* initialization.
C26_ConstructionChecksTheVersionAndReportsTheChain ==
    Constructed =>
        LET variant == client_last.args[1]
            protocol == client_last.args[2]
        IN  /\ \A other \in Variants \ {variant} :
                   BlockchainOfVariant[other] /= BlockchainOfVariant[variant]
            /\ protocol \in {<<0, 1, 0>>, <<0, 2, 0>>} =>
                   /\ Len(client_last.handed) = 1
                   /\ client_last.handed[1].answer = "initialized" =>
                          client_last.outcome =
                              Returned(variant,
                                       <<[blockchain |->
                                              BlockchainOfVariant[variant],
                                          protocol_version |-> protocol]>>)
            /\ protocol \notin {<<0, 1, 0>>, <<0, 2, 0>>} =>
                   /\ client_last.outcome.kind = "raise"
                   /\ client_last.handed = <<>>

\* a Polygon client has been constructed
C26_Witness ==
    /\ Constructed
    /\ client_last.args[1] = "PolygonClient"
    /\ client_last.outcome.kind = "return"
    /\ client_last.outcome.value[1].blockchain = "POLYGON"

\* the construction of an Avalanche client has failed for its version
C26_WitnessUnsupported ==
    /\ Constructed
    /\ client_last.args[1] = "AvalancheClient"
    /\ client_last.args[2] = <<1, 0, 0>>
    /\ client_last.outcome.kind = "raise"

\* the error class of each variant of the client
ErrorOfVariant ==
    [AvalancheClient |-> "AvalancheClientError",
     BnbChainClient |-> "BnbChainClientError",
     CeloClient |-> "CeloClientError", CronosClient |-> "CronosClientError",
     PolygonClient |-> "PolygonClientError"]

\* C27: a construction whose initialization of the utilities fails ends
\* with an error of the variant's own error class: no client results, and
\* the initialization has been tried once.
C27_FailedInitializationRaisesTheChainsError ==
    Constructed =>
        \A i \in DOMAIN client_last.handed :
            client_last.handed[i].answer = "BlockchainUtilitiesError" =>
                /\ client_last.outcome =
                       Raised(ErrorOfVariant[client_last.args[1]], <<>>)
                /\ Len(client_last.handed) = 1
                /\ client_last.handed[i].blockchain =
                       BlockchainOfVariant[client_last.args[1]]

\* the construction of a Cronos client has failed at the utilities
C27_Witness ==
    /\ Constructed
    /\ client_last.args[1] = "CronosClient"
    /\ client_last.outcome = Raised("CronosClientError", <<>>)
    /\ client_last.handed /= <<>>

(***************************************************************************)
(* The health interactor and the durable health store.  The store is      *)
(* db; the configuration says which blockchains are active; the last       *)
(* call is kept in client_last.                                            *)
(***************************************************************************)
\* for blockchain in Blockchain: the members in the order of the
\* enumeration
Blockchain == <<"BNB_CHAIN", "AVALANCHE", "CELO", "CRONOS", "POLYGON">>

\* the configurations of the health interactor: every blockchain active,
\* or all but two
HealthConfigs ==
    {[active |-> [b \in Blockchains |-> TRUE]],
     [active |-> [b \in Blockchains |-> b \notin {"AVALANCHE", "CELO"}]]}

get_blockchain_config(blockchain) == [active |-> config.active[blockchain]]

\* what callers store: the totals and the text of the unhealthy endpoints
\* (json.dumps of a list, or another text)
NodesHealthValues ==
    {[unhealthy_total |-> 0, unhealthy_endpoints |-> json_dumps(<<>>),
      healthy_total |-> 0],
     [unhealthy_total |-> 1,
      unhealthy_endpoints |->
          json_dumps(<<obfuscate_endpoint_path(SecretUri)>>),
      healthy_total |-> 2],
     [unhealthy_total |-> 1,
      unhealthy_endpoints |-> <<"[", "'", "123", "'", "]">>,
      healthy_total |-> 2]}

\* database.access.read_node_health_data: the record or None
read_node_health_data(store, blockchain) == store[blockchain]

\* whether json.loads(text) returns; otherwise it raises JSONDecodeError
json_decodable(text) ==
    /\ text /= <<>>
    /\ Head(text) = "["
    /\ json_dumps(json_loads(text)) = text

\* what can fail beside the decoding: the configuration lookup or the
\* read of the record of one blockchain, with an exception
Failures ==
    [blockchain : {"AVALANCHE", "CRONOS"},
     call : {"get_blockchain_config", "read_node_health_data"},
     exception : {"HealthInteractorError", "OperationalError"}]

Fails(failure, blockchain, call) ==
    /\ failure /= None
    /\ failure[1].blockchain = blockchain
    /\ failure[1].call = call

Thrown(exception, blockchain) ==
    [kind |-> "thrown", exception |-> exception, blockchain |-> blockchain,
     nodes_health |-> <<>>]

is_skipped_never(blockchain_config) == FALSE

\* if not blockchain_config['active']: continue
is_skipped(blockchain_config) == ~blockchain_config.active

\* the stored text handed on without json.loads
nodes_health_entry_undecoded(blockchain, nodes_health_data) ==
    [blockchain |-> blockchain,
     unhealthy_total |-> nodes_health_data.unhealthy_total,
     unhealthy_endpoints |-> nodes_health_data.unhealthy_endpoints,
     healthy_total |-> nodes_health_data.healthy_total]

\* the entry appended for a blockchain
nodes_health_entry(blockchain, nodes_health_data) ==
    [blockchain |-> blockchain,
     unhealthy_total |-> nodes_health_data.unhealthy_total,
     unhealthy_endpoints |-> json_loads(nodes_health_data.unhealthy_endpoints),
     healthy_total |-> nodes_health_data.healthy_total]

RECURSIVE collect(_, _, _, _)
\* the loop over the blockchains left, from the entries nodes_health
collect(blockchains, nodes_health, store, failure) ==
    IF blockchains = <<>>
    THEN [kind |-> "done", exception |-> "none", blockchain |-> "none",
          nodes_health |-> nodes_health]
    ELSE LET blockchain == Head(blockchains)
             nodes_health_data == read_node_health_data(store, blockchain)
         IN  IF Fails(failure, blockchain, "get_blockchain_config")
             THEN Thrown(failure[1].exception, blockchain)
             ELSE IF is_skipped(get_blockchain_config(blockchain))
             THEN collect(Tail(blockchains), nodes_health, store, failure)
             ELSE IF Fails(failure, blockchain, "read_node_health_data")
             THEN Thrown(failure[1].exception, blockchain)
             ELSE IF nodes_health_data = None
             THEN collect(Tail(blockchains), nodes_health, store, failure)
             ELSE IF ~json_decodable(nodes_health_data[1].unhealthy_endpoints)
             THEN Thrown("JSONDecodeError", blockchain)
             ELSE collect(Tail(blockchains),
                          Append(nodes_health,
                                 nodes_health_entry(blockchain,
                                                    nodes_health_data[1])),
                          store, failure)

except_converting_all(collected) ==
    Raised("HealthInteractorError",
           <<"unable to get the node health status", collected.blockchain>>)

\* the except clauses: a HealthInteractorError goes on as it is, another
\* exception becomes the interactor's error
except(collected) ==
    IF collected.exception = "HealthInteractorError"
    THEN Raised("HealthInteractorError", <<"raised inside">>)
    ELSE Raised("HealthInteractorError",
                <<"unable to get the node health status",
                  collected.blockchain>>)

\* HealthInteractor.get_blockchain_nodes_health_status
get_blockchain_nodes_health_status(failure) ==
    LET collected == collect(Blockchain, <<>>, db, failure)
    IN  /\ client_last' =
               [name |-> "get_blockchain_nodes_health_status",
                args |-> <<failure>>,
                handed |-> <<>>,
                lookups |-> <<>>,
                outcome |->
                    IF collected.kind = "done"
                    THEN Returned("list", collected.nodes_health)
                    ELSE except(collected)]
        /\ UNCHANGED <<program_vars, observer_vars, flush_vars>>
        /\ UNCHANGED <<config, submissions, account_nonce, jobs, next_nonce,
                       handed>>

\* a caller of database.access.update_node_health_data
update_node_health(blockchain, values) ==
    /\ db' = update_node_health_data(db, blockchain, values.unhealthy_total,
                                     values.unhealthy_endpoints,
                                     values.healthy_total)
    /\ client_last' =
           [name |-> "update_node_health_data",
            args |-> <<blockchain, values>>,
            handed |-> <<>>,
            lookups |-> <<>>,
            outcome |-> Returned("None", <<>>)]
    /\ UNCHANGED <<health_data, logged, observer_vars, flush_vars>>
    /\ UNCHANGED <<config, submissions, account_nonce, jobs, next_nonce,
                   handed>>

InitHealthStatus ==
    /\ HealthIdle
    /\ config \in HealthConfigs
    /\ ClientIdle

NextHealthStatus ==
    \/ \E blockchain \in Blockchains, values \in NodesHealthValues :
           update_node_health(blockchain, values)
    \/ \E failure \in {None} \cup {<<f>> : f \in Failures} :
           get_blockchain_nodes_health_status(failure)

SpecHealthStatus == InitHealthStatus /\ [][NextHealthStatus]_vars

(***************************************************************************)
(* Claims about the health interactor and the durable health store.        *)
(***************************************************************************)
HealthQuery == client_last.name = "get_blockchain_nodes_health_status"

Position_(blockchain) == CHOOSE i \in DOMAIN Blockchain : Blockchain[i] = blockchain

\* the blockchains that are active and have a record in the store
Reported == {b \in Blockchains : config.active[b] /\ db[b] /= <<>>}

\* C28: the health status that is returned has exactly one entry for each
\* blockchain that is active in the configuration and has a record in the
\* store, in the order of the enumeration, with the record's totals and
\* with the list of which the record's unhealthy_endpoints is the JSON
\* text; inactive blockchains and blockchains without a record have no
\* entry, and with every blockchain active and recorded there is one entry
\* for each blockchain.
C28_OneEntryPerActiveRecordedBlockchain ==
    HealthQuery /\ client_last.outcome.kind = "return" =>
        LET nodes_health == client_last.outcome.value
        IN  /\ {nodes_health[i].blockchain : i \in DOMAIN nodes_health}
                   = Reported
            /\ Len(nodes_health) = Cardinality(Reported)
            /\ \A i, j \in DOMAIN nodes_health :
                   i < j => Position_(nodes_health[i].blockchain)
                                < Position_(nodes_health[j].blockchain)
            /\ \A i \in DOMAIN nodes_health :
                   LET record == db[nodes_health[i].blockchain][1]
                   IN  /\ nodes_health[i].unhealthy_total =
                              record.unhealthy_total
                       /\ nodes_health[i].healthy_total = record.healthy_total
                       /\ json_dumps(nodes_health[i].unhealthy_endpoints) =
                              record.unhealthy_endpoints
            /\ (\A b \in Blockchains : config.active[b] /\ db[b] /= <<>>) =>
                   Len(nodes_health) = Cardinality(Blockchains)

\* a status of three entries, one of them with an unhealthy endpoint,
\* while two blockchains with records are inactive
C28_Witness ==
    /\ HealthQuery
    /\ client_last.outcome.kind = "return"
    /\ Len(client_last.outcome.value) = 3
    /\ \E i \in DOMAIN client_last.outcome.value :
           client_last.outcome.value[i].unhealthy_endpoints /= <<>>
    /\ \A b \in Blockchains : db[b] /= <<>>

\* a status with an entry for each of the blockchains
C28_WitnessAll ==
    /\ HealthQuery
    /\ client_last.outcome.kind = "return"
    /\ Len(client_last.outcome.value) = Cardinality(Blockchains)

\* the positions in the enumeration at which the collecting of the last
\* query fails: the configuration lookup, the read of the record or the
\* decoding of the stored text
FailingPositions ==
    {i \in DOMAIN Blockchain :
         \/ /\ client_last.args[1] /= None
            /\ client_last.args[1][1].blockchain = Blockchain[i]
            /\ \/ client_last.args[1][1].call = "get_blockchain_config"
               \/ config.active[Blockchain[i]]
         \/ /\ config.active[Blockchain[i]]
            /\ db[Blockchain[i]] /= <<>>
            /\ db[Blockchain[i]][1].unhealthy_endpoints \notin
                   {json_dumps(list) :
                        list \in {<<>>, <<obfuscate_endpoint_path(SecretUri)>>}}}

FirstFailingPosition ==
    CHOOSE i \in FailingPositions : \A j \in FailingPositions : i <= j

\* the first failure is a HealthInteractorError raised inside
FailsWithInteractorError ==
    /\ client_last.args[1] /= None
    /\ client_last.args[1][1].blockchain = Blockchain[FirstFailingPosition]
    /\ client_last.args[1][1].exception = "HealthInteractorError"

\* C29: if anything fails while the health status is collected (the
\* configuration lookup, the read of a record, the decoding of the stored
\* endpoint list), the query raises HealthInteractorError and returns no
\* list, not even the entries collected before: a HealthInteractorError
\* raised inside goes on unchanged, any other exception is converted into
\* a HealthInteractorError.  Without a failure the query returns.
C29_FailuresBecomeInteractorErrors ==
    HealthQuery =>
        /\ FailingPositions = {} => client_last.outcome.kind = "return"
        /\ FailingPositions /= {} =>
               /\ client_last.outcome.kind = "raise"
               /\ client_last.outcome.type = "HealthInteractorError"
               /\ FailsWithInteractorError =>
                      client_last.outcome.value = <<"raised inside">>
               /\ ~FailsWithInteractorError =>
                      client_last.outcome.value =
                          <<"unable to get the node health status",
                            Blockchain[FirstFailingPosition]>>

\* the decoding of the second blockchain's record has failed after the
\* first blockchain's entry was collected
C29_Witness ==
    /\ HealthQuery
    /\ client_last.args[1] = None
    /\ client_last.outcome.kind = "raise"
    /\ FirstFailingPosition = 2
    /\ config.active[Blockchain[1]]
    /\ db[Blockchain[1]] /= <<>>

\* a HealthInteractorError of the configuration lookup has gone on
C29_WitnessInside ==
    /\ HealthQuery
    /\ FailingPositions /= {}
    /\ FailsWithInteractorError
    /\ client_last.args[1][1].call = "get_blockchain_config"
    /\ client_last.outcome.kind = "raise"

StoreUpdate == client_last.name = "update_node_health_data"

\* C30: the durable health store is an upsert keyed by blockchain.  A
\* blockchain that was never updated has no record (the read returns
\* None); a blockchain's record changes only by an update for it, and
\* after an update there is exactly one record for the blockchain, which
\* the read returns with the values of that update; the records of the
\* other blockchains stay.
C30_StoreIsAnUpsertByBlockchain ==
    [][\A b \in Blockchains :
           /\ Len(db'[b]) <= 1
           /\ db'[b] /= db[b] => StoreUpdate' /\ client_last'.args[1] = b
           /\ StoreUpdate' /\ client_last'.args[1] = b =>
                  /\ Len(db'[b]) = 1
                  /\ read_node_health_data(db', b) = <<client_last'.args[2]>>
           /\ StoreUpdate' /\ client_last'.args[1] /= b =>
                  read_node_health_data(db', b) = read_node_health_data(db, b)]_vars

\* a record has been replaced by a second update, beside a blockchain that
\* was never updated
C30_Witness ==
    /\ StoreUpdate
    /\ client_last.args[1] = "BNB_CHAIN"
    /\ client_last.args[2].unhealthy_total = 1
    /\ Len(db["BNB_CHAIN"]) = 1
    /\ db["BNB_CHAIN"][1].healthy_total = 2
    /\ db["CELO"] = <<>>
    /\ db["AVALANCHE"] /= <<>>

(***************************************************************************)
(* The status query over every answer the utilities' interface allows:     *)
(* also a completed answer with another status or without a transaction    *)
(* ID, which the utilities of section 4.2 never give.                      *)
(***************************************************************************)
\* TransactionStatus of vision.common
AllTransactionStatuses ==
    {"UNINCLUDED", "UNCONFIRMED", "CONFIRMED", "REVERTED"}

StatusAnswers ==
    {Raised("BlockchainUtilitiesError", <<>>)} \cup
    {Returned("TransactionSubmissionStatusResponse",
              <<[transaction_submission_completed |-> completed,
                 transaction_status |-> transaction_status,
                 transaction_id |-> transaction_id]>>) :
         completed \in BOOLEAN,
         transaction_status \in
             {None} \cup {<<status>> : status \in AllTransactionStatuses},
         transaction_id \in
             {None} \cup {<<TransactionHash(id, 1)>> : id \in 1..MaxSubmissions}}

\* get_transfer_submission_status with utilities that give the answer
get_transfer_submission_status_answered(internal_transaction_id, destination_blockchain, answer) ==
    /\ \E read \in lookup_outcomes(answer) :
           LET result ==
                   transfer_submission_status(internal_transaction_id,
                                              destination_blockchain,
                                              answer, read)
           IN  client_last' =
                   [name |-> "get_transfer_submission_status",
                    args |-> <<internal_transaction_id,
                               destination_blockchain>>,
                    handed |-> <<answer>>,
                    lookups |-> result.lookups,
                    outcome |-> result.outcome]
    /\ UNCHANGED <<config, submissions, account_nonce, jobs, next_nonce,
                   handed>>

NextStatusAnswers ==
    \E internal_transaction_id \in 1..MaxSubmissions,
       destination_blockchain \in DestinationBlockchains,
       answer \in StatusAnswers :
        get_transfer_submission_status_answered(internal_transaction_id,
                                                destination_blockchain,
                                                answer)
            /\ UNCHANGED health_vars

SpecStatusAnswers == Init /\ [][NextStatusAnswers]_vars

\* the utilities have answered the last status query with a completed
\* submission
AnsweredCompleted ==
    /\ StatusQuery
    /\ client_last.handed[1].kind = "return"
    /\ client_last.handed[1].value[1].transaction_submission_completed

\* C31: a status query never returns a completed response whose status is
\* neither CONFIRMED nor REVERTED or whose transaction ID is empty.  When
\* the utilities answer with a completed submission of another status, or
\* without a transaction ID, the query ends with an assertion failure: no
\* response, no client error, and no lookup of the transfer ID.
C31_CompletedResponsesAreConfirmedOrReverted ==
    /\ StatusQuery /\ client_last.outcome.kind = "return" =>
           LET response == client_last.outcome.value[1]
           IN  response.transaction_submission_completed =>
                   /\ response.transaction_status \in
                          {<<"CONFIRMED">>, <<"REVERTED">>}
                   /\ response.transaction_id /= None
    /\ AnsweredCompleted =>
           LET answer == client_last.handed[1].value[1]
           IN  (\/ answer.transaction_status \notin
                       {<<"CONFIRMED">>, <<"REVERTED">>}
                \/ answer.transaction_id = None) =>
                   /\ client_last.outcome = Raised("AssertionError", <<>>)
                   /\ client_last.lookups = <<>>

\* a completed answer with the status UNCONFIRMED has ended in an
\* assertion failure
C31_Witness ==
    /\ AnsweredCompleted
    /\ client_last.handed[1].value[1].transaction_status = <<"UNCONFIRMED">>
    /\ client_last.handed[1].value[1].transaction_id /= None
    /\ client_last.outcome.kind = "raise"

\* a completed answer without a transaction ID has ended in the same way
C31_WitnessWithoutId ==
    /\ AnsweredCompleted
    /\ client_last.handed[1].value[1].transaction_status = <<"CONFIRMED">>
    /\ client_last.handed[1].value[1].transaction_id = None
    /\ client_last.outcome.kind = "raise"

\* C39: when the submission is CONFIRMED and the lookup of the on-chain
\* transfer ID fails, the status query raises the lookup's blockchain
\* client error to its caller and returns no response; a response that is
\* completed with the status CONFIRMED never has an empty on-chain
\* transfer ID.
C39_FailedTransferIdLookupRaises ==
    StatusQuery =>
        /\ \A i \in DOMAIN client_last.lookups :
               client_last.lookups[i].outcome.kind = "raise" =>
                   /\ client_last.outcome = client_last.lookups[i].outcome
                   /\ client_last.outcome.type = "BlockchainClientError"
        /\ (/\ Answer.kind = "return"
            /\ Answer.value[1].transaction_submission_completed
            /\ Answer.value[1].transaction_status = <<"CONFIRMED">>) =>
               /\ Len(client_last.lookups) = 1
               /\ client_last.outcome.kind = "return" =>
                      client_last.outcome.value[1].on_chain_transfer_id
                          /= None

\* the lookup for a confirmed submission has failed
C39_Witness ==
    /\ StatusQuery
    /\ Queried \in DOMAIN submissions
    /\ submissions[Queried].state = "CONFIRMED"
    /\ Len(client_last.lookups) = 1
    /\ client_last.lookups[1].outcome.kind = "raise"
    /\ client_last.outcome.kind = "raise"

\* the address configured for a contract role, if the coordinator knows
\* the role
ConfiguredAddress(contract_abi) ==
    IF contract_abi = "VISION_HUB" THEN <<config.hub>>
    ELSE IF contract_abi = "VISION_TOKEN" THEN <<config.vsn_token>>
    ELSE None

\* the contract role from which the last start has resolved the address:
\* the request's, or the prerequisite's of a depending request
ResolvedRole ==
    IF DependingStart
    THEN client_last.args[1].prerequisite_transaction
             .versioned_contract_abi.contract_abi
    ELSE client_last.args[1].versioned_contract_abi.contract_abi

\* C32: a start resolves the contract address from the contract role of
\* its request (of the prerequisite, for a depending start): the hub role
\* gives the configured hub address, the token role the configured token
\* address.  For any other role both kinds of start fail with
\* NotImplementedError, and nothing is handed to the utilities, no
\* submission is started and no job is enqueued.
C32_AddressComesFromTheRoleOrNotImplemented ==
    [][StartQuery' =>
           /\ ConfiguredAddress(ResolvedRole') /= None =>
                  /\ client_last'.handed /= <<>>
                  /\ client_last'.handed[1].contract_address =
                         ConfiguredAddress(ResolvedRole')[1]
                  /\ client_last'.outcome.type /= "NotImplementedError"
           /\ ConfiguredAddress(ResolvedRole') = None =>
                  /\ client_last'.outcome = Raised("NotImplementedError", <<>>)
                  /\ client_last'.handed = <<>>
                  /\ submissions' = submissions
                  /\ jobs' = jobs
                  /\ handed' = handed]_vars

\* a depending start for a forwarder prerequisite and a hub dependent has
\* failed: nothing is started, nothing enqueued
C32_Witness ==
    /\ DependingStart
    /\ ResolvedRole = "VISION_FORWARDER"
    /\ client_last.args[1].dependent_transaction.versioned_contract_abi
           .contract_abi = "VISION_HUB"
    /\ client_last.outcome.type = "NotImplementedError"
    /\ submissions = <<>>
    /\ jobs = <<>>

\* a single start for the forwarder has failed
C32_WitnessSingle ==
    /\ StartQuery
    /\ ~DependingStart
    /\ ResolvedRole = "VISION_FORWARDER"
    /\ client_last.outcome.type = "NotImplementedError"

\* a single start for the token has been handed on with the token address
C32_WitnessToken ==
    /\ StartQuery
    /\ ~DependingStart
    /\ ResolvedRole = "VISION_TOKEN"
    /\ client_last.handed /= <<>>
    /\ client_last.handed[1].contract_address = "token_address"

\* C33: in a depending start each of the two requests is addressed to the
\* contract of its own role: the prerequisite request has the address
\* configured for the prerequisite's role and the dependent request the
\* address configured for the dependent's role, also when the roles
\* differ.
C33_EachRequestGoesToTheContractOfItsRole ==
    DependingStart /\ Len(client_last.handed) = 2 =>
        /\ <<client_last.handed[1].contract_address>> =
               ConfiguredAddress(
                   client_last.args[1].prerequisite_transaction
                       .versioned_contract_abi.contract_abi)
        /\ <<client_last.handed[2].contract_address>> =
               ConfiguredAddress(
                   client_last.args[1].dependent_transaction
                       .versioned_contract_abi.contract_abi)

(***************************************************************************)
(* Claims about the entries of the health map.                             *)
(***************************************************************************)
\* the positions in the configuration of the blockchains whose RPC-node
\* list holds the URI
ChainsWith(endpoint_uri) ==
    {i \in DOMAIN get_blockchains_rpc_nodes :
         \E n \in DOMAIN get_blockchains_rpc_nodes[i].nodes :
             get_blockchains_rpc_nodes[i].nodes[n] = endpoint_uri}

\* the entries of a map under a key
EntriesUnder(hd, key) == {i \in DOMAIN hd : hd[i].endpoint = key}

\* C34: a registration attributes an endpoint to at most one blockchain,
\* the first in the order of the configuration whose RPC-node list holds
\* the URI; an endpoint that matches no blockchain gets no entry; a new
\* entry starts with is_healthy = true; and the blockchain of an entry
\* never changes afterwards.
C34_RegistrationAttributesTheFirstMatch ==
    [][/\ \A i \in DOMAIN health_data :
              \E j \in DOMAIN health_data' :
                  /\ health_data'[j].endpoint = health_data[i].endpoint
                  /\ health_data'[j].blockchain = health_data[i].blockchain
       /\ \A j \in DOMAIN health_data' :
              /\ Cardinality(EntriesUnder(health_data',
                                       health_data'[j].endpoint)) = 1
              /\ EntriesUnder(health_data, health_data'[j].endpoint) = {} =>
                     /\ last'.name = "add"
                     /\ last'.endpoint_uri = health_data'[j].endpoint
                     /\ health_data'[j].is_healthy
                     /\ \E c \in ChainsWith(last'.endpoint_uri) :
                            /\ \A d \in ChainsWith(last'.endpoint_uri) :
                                   c <= d
                            /\ health_data'[j].blockchain =
                                   get_blockchains_rpc_nodes[c].blockchain
       /\ last'.name = "add" /\ ChainsWith(last'.endpoint_uri) = {} =>
              health_data' = health_data
       /\ last'.name = "add" /\ ChainsWith(last'.endpoint_uri) /= {}
              /\ last' /= last =>
              EntriesUnder(health_data', last'.endpoint_uri) /= {}]_vars

\* an endpoint that two blockchains list has its entry with the first of
\* them, beside an entry of the second blockchain
C34_Witness ==
    /\ last.name = "add"
    /\ Cardinality(ChainsWith(last.endpoint_uri)) = 2
    /\ \E i \in DOMAIN health_data :
           /\ health_data[i].endpoint = last.endpoint_uri
           /\ health_data[i].blockchain = "AVALANCHE"
    /\ \E i \in DOMAIN health_data : health_data[i].blockchain = "BNB_CHAIN"

\* an endpoint that no blockchain lists has been registered in vain
C34_WitnessNoMatch ==
    /\ last.name = "add"
    /\ ChainsWith(last.endpoint_uri) = {}
    /\ health_data /= <<>>

\* C36: the health of an endpoint is monotone.  An entry whose is_healthy
\* is false keeps it false in every step: a successful wrapped call on
\* the endpoint, a registration of the same endpoint and a flush leave it
\* false.
C36_UnhealthyStaysUnhealthy ==
    [][\A i \in DOMAIN health_data :
           ~health_data[i].is_healthy =>
               \A j \in EntriesUnder(health_data', health_data[i].endpoint) :
                   ~health_data'[j].is_healthy]_vars

\* a call on an endpoint whose entry is unhealthy has succeeded
C36_Witness ==
    /\ last.name = "call"
    /\ last.made.kind = "return"
    /\ \E i \in DOMAIN health_data :
           /\ health_data[i].endpoint = last.endpoint_uri
           /\ ~health_data[i].is_healthy

\* an endpoint whose entry is unhealthy has been registered again
C36_WitnessRegistered ==
    /\ last.name = "add"
    /\ \E i \in DOMAIN health_data :
           /\ health_data[i].endpoint = last.endpoint_uri
           /\ ~health_data[i].is_healthy

C38_WitnessNoEntry ==
    /\ last.name = "call"
    /\ last.made.kind = "raise"
    /\ EntriesUnder(health_data, last.endpoint_uri) = {}
    /\ health_data /= <<>>

(***************************************************************************)
(* Specification: registrations in several threads, step by step, beside   *)
(* wrapped calls.  A registration tests the key with "not in" and stores   *)
(* the entry with a subscript assignment; each of the two is one atomic    *)
(* dictionary operation, and the interpreter may switch threads in         *)
(* between.  held collects every <<key, is_healthy>> the map has held.     *)
(***************************************************************************)
\* self._health_data[endpoint_uri] = {'blockchain': ..., 'is_healthy': True}
store_entry(hd, key, blockchain) ==
    LET entry == [endpoint |-> key, blockchain |-> blockchain,
                  is_healthy |-> TRUE]
    IN  IF key \in Keys(hd)
        THEN [hd EXCEPT ![IndexOf(hd, key)] = entry]
        ELSE Append(hd, entry)

\* the loop and the test of the key; a registration that finds no
\* blockchain or finds the key ends here
add_check(t, endpoint_uri) ==
    LET match == FirstMatch(endpoint_uri)
        key == health_data_key(endpoint_uri)
    IN  /\ adding[t] = <<>>
        /\ IF match /= <<>> /\ key \notin Keys(health_data)
           THEN /\ adding' =
                       [adding EXCEPT
                           ![t] = <<[endpoint_uri |-> endpoint_uri,
                                     blockchain |-> match[1]]>>]
                /\ UNCHANGED <<program_vars, observer_vars, held>>
           ELSE /\ add_blockchain_endpoint(endpoint_uri)
                /\ held' = held \cup Pairs(health_data')
                /\ UNCHANGED adding
        /\ UNCHANGED <<flush_pc, iterator, node_health_data, counted,
                       client_vars>>

\* the assignment of the new entry, and the break
add_store(t) ==
    /\ adding[t] /= <<>>
    /\ LET endpoint_uri == adding[t][1].endpoint_uri
           key == health_data_key(endpoint_uri)
       IN  /\ health_data' =
                  store_entry(health_data, key, adding[t][1].blockchain)
           /\ registered' = registered \cup {<<endpoint_uri, key>>}
           /\ history' = [history EXCEPT !.changed = @ \cup {key}]
           /\ last' = [NoOperation EXCEPT !.name = "add",
                                          !.endpoint_uri = endpoint_uri]
    /\ adding' = [adding EXCEPT ![t] = <<>>]
    /\ logged' = <<>>
    /\ flushes_in_row' = 0
    /\ held' = held \cup Pairs(health_data')
    /\ UNCHANGED <<db, flush_pc, iterator, node_health_data, counted,
                   client_vars>>

NextConcurrentAdd ==
    \/ \E t \in AddThreads, endpoint_uri \in ConfiguredURIs :
           add_check(t, endpoint_uri)
    \/ \E t \in AddThreads : add_store(t)
    \/ \E endpoint_uri \in ConfiguredURIs, made \in Outcomes :
           /\ middleware(endpoint_uri, made)
           /\ held' = held \cup Pairs(health_data')
           /\ UNCHANGED <<flush_pc, iterator, node_health_data, counted,
                          adding, client_vars>>

SpecConcurrentAdd == Init /\ [][NextConcurrentAdd]_vars

\* C37: an unhealthy mark is never lost to a race.  Under every
\* interleaving of registrations of an endpoint in several threads with a
\* failing wrapped call on it, an entry that the map has held with
\* is_healthy = false is in the map with is_healthy = false: no
\* registration overwrites it with a fresh, healthy entry.
C37_UnhealthyMarkSurvivesRegistrations ==
    \A pair \in held :
        ~pair[2] =>
            \A i \in DOMAIN health_data :
                health_data[i].endpoint = pair[1] =>
                    ~health_data[i].is_healthy

(***************************************************************************)
(* Specification: the middleware, the flush and the health interactor      *)
(* over one store.  update_node_health_data may raise for one blockchain   *)
(* of the second loop.  node_health_data keeps the dictionary the last     *)
(* flush built, flush_pc is "error" after a flush that raised, and         *)
(* client_last keeps the last call.                                        *)
(***************************************************************************)
\* what update_node_health_data raises when the database fails
DatabaseErrors == {"OperationalError", "IntegrityError"}

HealthCall(name, args, outcome) ==
    [name |-> name, args |-> args, handed |-> <<>>, lookups |-> <<>>,
     outcome |-> outcome]

RECURSIVE persist_until_skipping(_, _, _)
\* the failing update is passed over and the loop goes on
persist_until_skipping(store, nhd, failing) ==
    IF nhd = <<>> THEN store
    ELSE IF Head(nhd).blockchain = failing
    THEN persist_until_skipping(store, Tail(nhd), failing)
    ELSE persist_until_skipping(
             update_node_health_data(
                 store, Head(nhd).blockchain, Head(nhd).unhealthy_total,
                 json_dumps(Head(nhd).unhealthy_endpoints),
                 Head(nhd).healthy_total),
             Tail(nhd), failing)

RECURSIVE persist_until(_, _, _)
\* the second loop when the update of the blockchain failing raises: the
\* updates before it are made, the loop ends there
persist_until(store, nhd, failing) ==
    IF nhd = <<>> THEN store
    ELSE IF Head(nhd).blockchain = failing
    THEN store
    ELSE persist_until(
             update_node_health_data(
                 store, Head(nhd).blockchain, Head(nhd).unhealthy_total,
                 json_dumps(Head(nhd).unhealthy_endpoints),
                 Head(nhd).healthy_total),
             Tail(nhd), failing)

\* the failure of a read beside the flushes
ReadFailures ==
    {f \in Failures : /\ f.blockchain = "AVALANCHE"
                      /\ f.call = "read_node_health_data"
                      /\ f.exception = "OperationalError"}

\* add_blockchain_endpoint, as the last call; last keeps its argument
add_blockchain_endpoint_called(endpoint_uri) ==
    /\ add_blockchain_endpoint(endpoint_uri)
    /\ client_last' = HealthCall("add_blockchain_endpoint", <<>>,
                                 Returned("None", <<>>))
    /\ UNCHANGED <<flush_vars, config, submissions, account_nonce, jobs,
                   next_nonce, handed>>

\* a wrapped call, as the last call
middleware_called(endpoint_uri, made) ==
    /\ middleware(endpoint_uri, made)
    /\ client_last' =
           HealthCall("middleware", <<>>,
                      IF made.kind = "return"
                      THEN Returned("RPCResponse", <<>>)
                      ELSE Raised(made.value, <<>>))
    /\ UNCHANGED <<flush_vars, config, submissions, account_nonce, jobs,
                   next_nonce, handed>>

\* a flush in which every update_node_health_data returns
flush_health_data_returning ==
    /\ flush_health_data
    /\ node_health_data' = aggregate(health_data, <<>>)
    /\ flush_pc' = "idle"
    /\ client_last' = HealthCall("flush_health_data", <<>>,
                                 Returned("None", <<>>))
    /\ UNCHANGED <<iterator, counted, held, adding, config, submissions,
                   account_nonce, jobs, next_nonce, handed>>

\* a flush in which update_node_health_data raises exception for the
\* blockchain failing: nothing catches it
flush_health_data_raising(failing, exception) ==
    LET nhd == aggregate(health_data, <<>>)
    IN  /\ \E i \in DOMAIN nhd : nhd[i].blockchain = failing
        /\ db' = persist_until(db, nhd, failing)
        /\ node_health_data' = nhd
        /\ flush_pc' = "error"
        /\ client_last' = HealthCall("flush_health_data",
                                     <<failing, exception>>,
                                     Raised(exception, <<>>))
        /\ logged' = <<>>
        /\ last' = [NoOperation EXCEPT !.name = "flush"]
        /\ UNCHANGED <<health_data, registered, flushes_in_row, history,
                       iterator, counted, held, adding, config, submissions,
                       account_nonce, jobs, next_nonce, handed>>

NextFlushRead ==
    \/ \E endpoint_uri \in ConfiguredURIs :
           add_blockchain_endpoint_called(endpoint_uri)
    \/ \E endpoint_uri \in ConfiguredURIs, made \in Outcomes :
           middleware_called(endpoint_uri, made)
    \/ flush_health_data_returning
    \/ \E failing \in Blockchains, exception \in DatabaseErrors :
           flush_health_data_raising(failing, exception)
    \/ \E failure \in {None} \cup {<<f>> : f \in ReadFailures} :
           get_blockchain_nodes_health_status(failure)

SpecFlushRead == InitHealthStatus /\ [][NextFlushRead]_vars

FlushRaised ==
    /\ client_last.name = "flush_health_data"
    /\ client_last.outcome.kind = "raise"

\* the records a flush of the map hd writes, in the order of its second loop
RecordsOf(hd) ==
    LET nhd == aggregate(hd, <<>>)
    IN  [i \in DOMAIN nhd |->
            [blockchain |-> nhd[i].blockchain,
             record |-> [unhealthy_total |-> nhd[i].unhealthy_total,
                         unhealthy_endpoints |->
                             json_dumps(nhd[i].unhealthy_endpoints),
                         healthy_total |-> nhd[i].healthy_total]]]

\* C40: a flush is not atomic across chains but never corrupts state on
\* error.  When persisting the record of one chain fails, the exception
\* reaches the caller of the flush as it was raised, the live health map
\* is unchanged, the chains persisted earlier in that flush have their new
\* records, and the failing chain and all other chains keep the records
\* they had before.
C40_FailedFlushKeepsEarlierAndLaterRecords ==
    [][FlushRaised' =>
          LET failing == client_last'.args[1]
              records == RecordsOf(health_data)
              k == CHOOSE i \in DOMAIN records :
                       records[i].blockchain = failing
              earlier == {records[i].blockchain : i \in 1..(k - 1)}
          IN  /\ client_last'.outcome = Raised(client_last'.args[2], <<>>)
              /\ health_data' = health_data
              /\ \A i \in 1..(k - 1) :
                     db'[records[i].blockchain] = <<records[i].record>>
              /\ \A b \in Blockchains \ earlier : db'[b] = db[b]]_vars

\* a flush failed at its second chain after the first chain was persisted
C40_Witness ==
    /\ FlushRaised
    /\ Len(node_health_data) = 2
    /\ client_last.args[1] = node_health_data[2].blockchain
    /\ db[node_health_data[1].blockchain] =
           <<[unhealthy_total |-> node_health_data[1].unhealthy_total,
              unhealthy_endpoints |->
                  json_dumps(node_health_data[1].unhealthy_endpoints),
              healthy_total |-> node_health_data[1].healthy_total]>>
    /\ db[node_health_data[2].blockchain] = <<>>

\* a flush failed at its first chain: the second chain keeps no record
C40_WitnessFirst ==
    /\ FlushRaised
    /\ Len(node_health_data) = 2
    /\ client_last.args[1] = node_health_data[1].blockchain
    /\ \A b \in Blockchains : db[b] = <<>>


HealthReturned ==
    /\ HealthQuery
    /\ client_last.outcome.kind = "return"

\* the entries of the returned status for a blockchain
EntriesFor(blockchain) ==
    {i \in DOMAIN client_last.outcome.value :
        client_last.outcome.value[i].blockchain = blockchain}

=============================================================================
